---- MODULE Spec2Model ----
(***************************************************************************)
(* SchemaSense backend: the canonical Schema Model and its mutation API    *)
(* (app/models/schema_model.py), the SQL validator                         *)
(* (app/nl_to_sql/validator.py) and the SQL execution endpoint             *)
(* (app/routes/sql.py).                                                    *)
(*                                                                         *)
(* Text that the code inspects character by character (column type         *)
(* strings, printed ALTER actions) is a tuple of one-character strings;    *)
(* identifiers that the code only compares or concatenates are strings.    *)
(***************************************************************************)
EXTENDS Integers, Sequences, FiniteSets, TLC

VARIABLES
    tables,         \* CanonicalSchemaModel.tables
    relationships,  \* CanonicalSchemaModel.relationships
    result,         \* exception raised by the last mutation call ("none" if it returned)
    v_sql,          \* validate_and_normalize_sql: the parsed input of the last call
    v_out,          \* validate_and_normalize_sql: what the last call returned or raised
    _schema_cache,  \* cache.py: "model" if the slot holds the Schema Model, else "None"
    _session_configs, \* db.py: the DatabaseConfig of the session, NoConfig if it has none
    e_frame,        \* execute_sql: position and locals of the request being served
    e_db,           \* what the database connection of the request has received
    s_frame,        \* apply_er_edits / apply_ddl_edit: position and locals of the request
    db_version,     \* number of DDL batches committed to the database
    cache_version,  \* db_version when the cached model was introspected, -1 if it was not
    cache_config,   \* the DatabaseConfig the cached model was introspected through
    c_frame,        \* routes/config.py, routes/db_provision.py: the last request and its response
    roles,          \* the roles of the managed cluster
    databases,      \* the databases of the managed cluster
    provisioned_dbs, \* the rows of the metadata table provisioned_dbs, in id order
    now,            \* CURRENT_TIMESTAMP, in days
    d_frame,        \* to_ddl / from_ddl / generate_ddl_from_action: the last call and its texts
    p_frames,       \* provisioning requests in flight: position and quota answer of each
    peer            \* a second session: its entry of _session_configs

vars == <<tables, relationships, result, v_sql, v_out,
          _schema_cache, _session_configs, e_frame, e_db,
          s_frame, db_version, cache_version, cache_config, c_frame,
          roles, databases, provisioned_dbs, now, d_frame, p_frames, peer>>

\* the variables of the managed cluster
clusterVars == <<roles, databases, provisioned_dbs, now>>

\* the variables of the connection requests
configVars == <<cache_config, c_frame, d_frame, p_frames, peer>>

\* no DDL text has been produced
NoDdl == [op |-> ""]

\* no provisioning request in flight
NoRequests == <<>>

\* ------------------------------------------------------------------------
\* Bounds of the model
\* ------------------------------------------------------------------------
MaxTables == 2
MaxCols == 2
MaxRels == 2

\* ------------------------------------------------------------------------
\* Character-level helpers (Python str methods used by the code)
\* ------------------------------------------------------------------------
UpperToLower ==
    ("A" :> "a") @@ ("B" :> "b") @@ ("C" :> "c") @@ ("D" :> "d") @@ ("E" :> "e") @@ ("F" :> "f") @@
    ("G" :> "g") @@ ("H" :> "h") @@ ("I" :> "i") @@ ("J" :> "j") @@ ("K" :> "k") @@ ("L" :> "l") @@
    ("M" :> "m") @@ ("N" :> "n") @@ ("O" :> "o") @@ ("P" :> "p") @@ ("Q" :> "q") @@ ("R" :> "r") @@
    ("S" :> "s") @@ ("T" :> "t") @@ ("U" :> "u") @@ ("V" :> "v") @@ ("W" :> "w") @@ ("X" :> "x") @@
    ("Y" :> "y") @@ ("Z" :> "z")

\* str.lower() on one character
LowerChar(c) == IF c \in DOMAIN UpperToLower THEN UpperToLower[c] ELSE c

\* str.lower()
lower(s) == [i \in 1..Len(s) |-> LowerChar(s[i])]

\* str.strip(): drop leading and trailing blanks
RECURSIVE lstrip(_)
lstrip(s) == IF s # <<>> /\ Head(s) = " " THEN lstrip(Tail(s)) ELSE s

RECURSIVE rstrip(_)
rstrip(s) == IF s # <<>> /\ s[Len(s)] = " " THEN rstrip(SubSeq(s, 1, Len(s) - 1)) ELSE s

strip(s) == rstrip(lstrip(s))

\* str.endswith(suffix)
endswith(s, suffix) ==
    /\ Len(s) >= Len(suffix)
    /\ SubSeq(s, Len(s) - Len(suffix) + 1, Len(s)) = suffix

\* str.split(ch)[0]: the text before the first occurrence of ch
RECURSIVE split_head(_, _)
split_head(s, ch) ==
    IF s = <<>> \/ Head(s) = ch THEN <<>> ELSE <<Head(s)>> \o split_head(Tail(s), ch)

\* ------------------------------------------------------------------------
\* Schema Model: types, helpers
\* ------------------------------------------------------------------------
VALID_POSTGRES_TYPES ==
    {
      <<"s","m","a","l","l","i","n","t">>,
      <<"i","n","t","e","g","e","r">>,
      <<"i","n","t">>,
      <<"b","i","g","i","n","t">>,
      <<"d","e","c","i","m","a","l">>,
      <<"n","u","m","e","r","i","c">>,
      <<"r","e","a","l">>,
      <<"d","o","u","b","l","e"," ","p","r","e","c","i","s","i","o","n">>,
      <<"s","m","a","l","l","s","e","r","i","a","l">>,
      <<"s","e","r","i","a","l">>,
      <<"b","i","g","s","e","r","i","a","l">>,
      <<"i","n","t","2">>,
      <<"i","n","t","4">>,
      <<"i","n","t","8">>,
      <<"f","l","o","a","t","4">>,
      <<"f","l","o","a","t","8">>,
      <<"m","o","n","e","y">>,
      <<"c","h","a","r","a","c","t","e","r"," ","v","a","r","y","i","n","g">>,
      <<"v","a","r","c","h","a","r">>,
      <<"c","h","a","r","a","c","t","e","r">>,
      <<"c","h","a","r">>,
      <<"t","e","x","t">>,
      <<"b","y","t","e","a">>,
      <<"t","i","m","e","s","t","a","m","p">>,
      <<"t","i","m","e","s","t","a","m","p"," ","w","i","t","h","o","u","t"," ","t","i","m","e"," ","z","o","n","e">>,
      <<"t","i","m","e","s","t","a","m","p"," ","w","i","t","h"," ","t","i","m","e"," ","z","o","n","e">>,
      <<"d","a","t","e">>,
      <<"t","i","m","e">>,
      <<"t","i","m","e"," ","w","i","t","h","o","u","t"," ","t","i","m","e"," ","z","o","n","e">>,
      <<"t","i","m","e"," ","w","i","t","h"," ","t","i","m","e"," ","z","o","n","e">>,
      <<"i","n","t","e","r","v","a","l">>,
      <<"b","o","o","l","e","a","n">>,
      <<"b","o","o","l">>,
      <<"e","n","u","m">>,
      <<"p","o","i","n","t">>,
      <<"l","i","n","e">>,
      <<"l","s","e","g">>,
      <<"b","o","x">>,
      <<"p","a","t","h">>,
      <<"p","o","l","y","g","o","n">>,
      <<"c","i","r","c","l","e">>,
      <<"c","i","d","r">>,
      <<"i","n","e","t">>,
      <<"m","a","c","a","d","d","r">>,
      <<"m","a","c","a","d","d","r","8">>,
      <<"b","i","t">>,
      <<"b","i","t"," ","v","a","r","y","i","n","g">>,
      <<"t","s","v","e","c","t","o","r">>,
      <<"t","s","q","u","e","r","y">>,
      <<"u","u","i","d">>,
      <<"x","m","l">>,
      <<"j","s","o","n">>,
      <<"j","s","o","n","b">>,
      <<"a","r","r","a","y">>,
      <<"i","n","t","4","r","a","n","g","e">>,
      <<"i","n","t","8","r","a","n","g","e">>,
      <<"n","u","m","r","a","n","g","e">>,
      <<"t","s","r","a","n","g","e">>,
      <<"t","s","t","z","r","a","n","g","e">>,
      <<"d","a","t","e","r","a","n","g","e">>,
      <<"o","i","d">>,
      <<"r","e","g","p","r","o","c">>,
      <<"r","e","g","p","r","o","c","e","d","u","r","e">>,
      <<"r","e","g","o","p","e","r">>,
      <<"r","e","g","o","p","e","r","a","t","o","r">>,
      <<"r","e","g","c","l","a","s","s">>,
      <<"r","e","g","t","y","p","e">>,
      <<"r","e","g","r","o","l","e">>,
      <<"r","e","g","n","a","m","e","s","p","a","c","e">>,
      <<"r","e","g","c","o","n","f","i","g">>,
      <<"r","e","g","d","i","c","t","i","o","n","a","r","y">>
    }

SchemaValidationError == "SchemaValidationError"

\* _validate_column_type: TRUE iff the call returns without raising
_validate_column_type(col_type) ==
    LET normalized_type == strip(lower(col_type)) IN
    IF endswith(normalized_type, <<"[", "]">>)
    THEN strip(SubSeq(normalized_type, 1, Len(normalized_type) - 2)) \in VALID_POSTGRES_TYPES
    ELSE IF \E i \in 1..Len(normalized_type) : normalized_type[i] = "("
    THEN strip(split_head(normalized_type, "(")) \in VALID_POSTGRES_TYPES
    ELSE normalized_type \in VALID_POSTGRES_TYPES

\* f"{schema}.{name}"
FQN(schema, name) == schema \o "." \o name

\* _get_column_by_name: index of the first column with that name, 0 for None
_get_column_by_name(table, column_name) ==
    IF \E i \in 1..Len(table.columns) : table.columns[i].name = column_name
    THEN CHOOSE i \in 1..Len(table.columns) :
            /\ table.columns[i].name = column_name
            /\ \A j \in 1..(i - 1) : table.columns[j].name # column_name
    ELSE 0

\* _is_column_referenced_by_fk
_is_column_referenced_by_fk(R, table_name, column_name) ==
    SelectSeq(R, LAMBDA rel : rel.to_table = table_name /\ rel.to_column = column_name)

\* _get_outgoing_fks (with a column name)
_get_outgoing_fks(R, table_name, column_name) ==
    SelectSeq(R, LAMBDA rel : rel.from_table = table_name /\ rel.from_column = column_name)

\* Outcome of a call: the model as the call leaves it, and the exception raised
Return(T, R) == [exc |-> "none", tables |-> T, relationships |-> R]

Raise(T, R) == [exc |-> SchemaValidationError, tables |-> T, relationships |-> R]

Remove(T, key) == [k \in (DOMAIN T) \ {key} |-> T[k]]

\* ------------------------------------------------------------------------
\* Schema Model: mutation API.  Each operator takes the model (T = tables,
\* R = relationships) and the call's arguments and yields the outcome.
\* ------------------------------------------------------------------------
add_table(T, R, name, schema, columns) ==
    LET fully_qualified_name == FQN(schema, name) IN
    IF fully_qualified_name \in DOMAIN T THEN Raise(T, R)
    ELSE IF \E i \in 1..Len(columns) : ~_validate_column_type(columns[i].type) THEN Raise(T, R)
    ELSE Return(T @@ (fully_qualified_name :>
                        [name |-> name, schema |-> schema, columns |-> columns]), R)

\* rename_table that re-creates the table under the new name and loses the
\* relationships of the old one
rename_table_forgets_relationships(T, R, old_name, new_name, schema) ==
    LET old_fully_qualified == FQN(schema, old_name)
        new_fully_qualified == FQN(schema, new_name)
    IN
    IF old_fully_qualified \notin DOMAIN T THEN Raise(T, R)
    ELSE IF new_fully_qualified \in DOMAIN T THEN Raise(T, R)
    ELSE
        LET table == [T[old_fully_qualified] EXCEPT !.name = new_name]
            T1 == Remove(T, old_fully_qualified) @@ (new_fully_qualified :> table)
        IN Return(T1, SelectSeq(R, LAMBDA rel : /\ rel.from_table # old_fully_qualified
                                                /\ rel.to_table # old_fully_qualified))

rename_table(T, R, old_name, new_name, schema) ==
    LET old_fully_qualified == FQN(schema, old_name)
        new_fully_qualified == FQN(schema, new_name)
    IN
    IF old_fully_qualified \notin DOMAIN T THEN Raise(T, R)
    ELSE IF new_fully_qualified \in DOMAIN T THEN Raise(T, R)
    ELSE
        LET table == [T[old_fully_qualified] EXCEPT !.name = new_name]
            T1 == Remove(T, old_fully_qualified) @@ (new_fully_qualified :> table)
            R1 == [i \in 1..Len(R) |->
                     [R[i] EXCEPT
                        !.from_table = IF @ = old_fully_qualified THEN new_fully_qualified ELSE @,
                        !.to_table = IF @ = old_fully_qualified THEN new_fully_qualified ELSE @]]
        IN Return(T1, R1)

\* drop_table that forgets the relationships leaving the dropped table
drop_table_keeps_outgoing(T, R, name, schema, force) ==
    LET fully_qualified_name == FQN(schema, name) IN
    IF fully_qualified_name \notin DOMAIN T THEN Raise(T, R)
    ELSE
        LET referenced_by == SelectSeq(R, LAMBDA rel : rel.to_table = fully_qualified_name) IN
        IF referenced_by # <<>> /\ ~force THEN Raise(T, R)
        ELSE Return(Remove(T, fully_qualified_name),
                    SelectSeq(R, LAMBDA rel : rel.to_table # fully_qualified_name))

drop_table(T, R, name, schema, force) ==
    LET fully_qualified_name == FQN(schema, name) IN
    IF fully_qualified_name \notin DOMAIN T THEN Raise(T, R)
    ELSE
        LET referenced_by == SelectSeq(R, LAMBDA rel : rel.to_table = fully_qualified_name) IN
        IF referenced_by # <<>> /\ ~force THEN Raise(T, R)
        ELSE Return(Remove(T, fully_qualified_name),
                    SelectSeq(R, LAMBDA rel : /\ rel.from_table # fully_qualified_name
                                              /\ rel.to_table # fully_qualified_name))

add_column(T, R, table_name, column, schema) ==
    LET fully_qualified_name == FQN(schema, table_name) IN
    IF fully_qualified_name \notin DOMAIN T THEN Raise(T, R)
    ELSE
        LET table == T[fully_qualified_name] IN
        IF _get_column_by_name(table, column.name) # 0 THEN Raise(T, R)
        ELSE IF ~_validate_column_type(column.type) THEN Raise(T, R)
        ELSE Return([T EXCEPT ![fully_qualified_name].columns = Append(@, column)], R)

rename_column(T, R, table_name, old_col, new_col, schema) ==
    LET fully_qualified_name == FQN(schema, table_name) IN
    IF fully_qualified_name \notin DOMAIN T THEN Raise(T, R)
    ELSE
        LET table == T[fully_qualified_name]
            old_column == _get_column_by_name(table, old_col)
        IN
        IF old_column = 0 THEN Raise(T, R)
        ELSE IF _get_column_by_name(table, new_col) # 0 THEN Raise(T, R)
        ELSE
            LET T1 == [T EXCEPT ![fully_qualified_name].columns[old_column].name = new_col]
                R1 == [i \in 1..Len(R) |->
                         [R[i] EXCEPT
                            !.from_column =
                                IF R[i].from_table = fully_qualified_name /\ @ = old_col
                                THEN new_col ELSE @,
                            !.to_column =
                                IF R[i].to_table = fully_qualified_name /\ @ = old_col
                                THEN new_col ELSE @]]
            IN Return(T1, R1)

\* drop_column that does not look at the relationships leaving the column
drop_column_ignores_outgoing(T, R, table_name, column_name, schema, force) ==
    LET fully_qualified_name == FQN(schema, table_name) IN
    IF fully_qualified_name \notin DOMAIN T THEN Raise(T, R)
    ELSE
        LET table == T[fully_qualified_name] IN
        IF _get_column_by_name(table, column_name) = 0 THEN Raise(T, R)
        ELSE IF _is_column_referenced_by_fk(R, fully_qualified_name, column_name) # <<>> /\ ~force
        THEN Raise(T, R)
        ELSE
            Return([T EXCEPT ![fully_qualified_name].columns =
                        SelectSeq(@, LAMBDA col : col.name # column_name)],
                   SelectSeq(R, LAMBDA rel :
                        ~ \/ (rel.from_table = fully_qualified_name /\ rel.from_column = column_name)
                          \/ (rel.to_table = fully_qualified_name /\ rel.to_column = column_name)))

drop_column(T, R, table_name, column_name, schema, force) ==
    LET fully_qualified_name == FQN(schema, table_name) IN
    IF fully_qualified_name \notin DOMAIN T THEN Raise(T, R)
    ELSE
        LET table == T[fully_qualified_name] IN
        IF _get_column_by_name(table, column_name) = 0 THEN Raise(T, R)
        ELSE IF _is_column_referenced_by_fk(R, fully_qualified_name, column_name) # <<>> /\ ~force
        THEN Raise(T, R)
        ELSE IF _get_outgoing_fks(R, fully_qualified_name, column_name) # <<>> /\ ~force
        THEN Raise(T, R)
        ELSE
            Return([T EXCEPT ![fully_qualified_name].columns =
                        SelectSeq(@, LAMBDA col : col.name # column_name)],
                   SelectSeq(R, LAMBDA rel :
                        ~ \/ (rel.from_table = fully_qualified_name /\ rel.from_column = column_name)
                          \/ (rel.to_table = fully_qualified_name /\ rel.to_column = column_name)))

Relationship(from_table, from_column, to_table, to_column) ==
    [from_table |-> from_table, from_column |-> from_column,
     to_table |-> to_table, to_column |-> to_column]

\* add_relationship that marks the source column before the duplicate check
add_relationship_marks_first(T, R, from_table, from_column, to_table, to_column, from_schema, to_schema) ==
    LET from_fqn == FQN(from_schema, from_table)
        to_fqn == FQN(to_schema, to_table)
    IN
    IF from_fqn \notin DOMAIN T THEN Raise(T, R)
    ELSE IF to_fqn \notin DOMAIN T THEN Raise(T, R)
    ELSE
        LET from_col == _get_column_by_name(T[from_fqn], from_column)
            to_col == _get_column_by_name(T[to_fqn], to_column)
        IN
        IF from_col = 0 THEN Raise(T, R)
        ELSE IF to_col = 0 THEN Raise(T, R)
        ELSE
            LET T1 == [T EXCEPT ![from_fqn].columns[from_col].is_fk = TRUE] IN
            IF ~T[to_fqn].columns[to_col].is_pk THEN Raise(T1, R)
            ELSE IF \E i \in 1..Len(R) :
                        R[i] = Relationship(from_fqn, from_column, to_fqn, to_column)
            THEN Raise(T1, R)
            ELSE Return(T1, Append(R, Relationship(from_fqn, from_column, to_fqn, to_column)))

add_relationship(T, R, from_table, from_column, to_table, to_column, from_schema, to_schema) ==
    LET from_fqn == FQN(from_schema, from_table)
        to_fqn == FQN(to_schema, to_table)
    IN
    IF from_fqn \notin DOMAIN T THEN Raise(T, R)
    ELSE IF to_fqn \notin DOMAIN T THEN Raise(T, R)
    ELSE
        LET from_col == _get_column_by_name(T[from_fqn], from_column)
            to_col == _get_column_by_name(T[to_fqn], to_column)
        IN
        IF from_col = 0 THEN Raise(T, R)
        ELSE IF to_col = 0 THEN Raise(T, R)
        ELSE IF ~T[to_fqn].columns[to_col].is_pk THEN Raise(T, R)
        ELSE IF \E i \in 1..Len(R) : R[i] = Relationship(from_fqn, from_column, to_fqn, to_column)
        THEN Raise(T, R)
        ELSE Return([T EXCEPT ![from_fqn].columns[from_col].is_fk = TRUE],
                    Append(R, Relationship(from_fqn, from_column, to_fqn, to_column)))

\* remove_relationship that clears is_fk without looking at the remaining relationships
remove_relationship_always_clears(T, R, from_table, from_column, to_table, to_column, from_schema, to_schema) ==
    LET from_fqn == FQN(from_schema, from_table)
        to_fqn == FQN(to_schema, to_table)
        target == Relationship(from_fqn, from_column, to_fqn, to_column)
    IN
    IF ~ \E i \in 1..Len(R) : R[i] = target THEN Raise(T, R)
    ELSE
        LET i == CHOOSE k \in 1..Len(R) : R[k] = target /\ \A j \in 1..(k - 1) : R[j] # target
            R1 == SubSeq(R, 1, i - 1) \o SubSeq(R, i + 1, Len(R))
            from_col == IF from_fqn \in DOMAIN T
                        THEN _get_column_by_name(T[from_fqn], from_column) ELSE 0
        IN
        IF from_col # 0
        THEN Return([T EXCEPT ![from_fqn].columns[from_col].is_fk = FALSE], R1)
        ELSE Return(T, R1)

remove_relationship(T, R, from_table, from_column, to_table, to_column, from_schema, to_schema) ==
    LET from_fqn == FQN(from_schema, from_table)
        to_fqn == FQN(to_schema, to_table)
        target == Relationship(from_fqn, from_column, to_fqn, to_column)
    IN
    IF ~ \E i \in 1..Len(R) : R[i] = target THEN Raise(T, R)
    ELSE
        LET i == CHOOSE k \in 1..Len(R) : R[k] = target /\ \A j \in 1..(k - 1) : R[j] # target
            R1 == SubSeq(R, 1, i - 1) \o SubSeq(R, i + 1, Len(R))
            from_col == IF from_fqn \in DOMAIN T
                        THEN _get_column_by_name(T[from_fqn], from_column) ELSE 0
            still_fk == \E k \in 1..Len(R1) :
                            R1[k].from_table = from_fqn /\ R1[k].from_column = from_column
        IN
        IF from_col # 0 /\ ~still_fk
        THEN Return([T EXCEPT ![from_fqn].columns[from_col].is_fk = FALSE], R1)
        ELSE Return(T, R1)

\* ------------------------------------------------------------------------
\* Inputs of the mutation calls
\* ------------------------------------------------------------------------
Schemas == {"public"}

TableNames == {"customers", "orders", "archive"}

ColumnNames == {"id", "customer_id"}

integer == <<"i","n","t","e","g","e","r">>

\* Column objects a caller passes to add_table / add_column
ColumnInputs ==
    { [name |-> "id", type |-> integer, is_pk |-> TRUE, is_fk |-> FALSE, nullable |-> FALSE],
      [name |-> "customer_id", type |-> integer, is_pk |-> FALSE, is_fk |-> FALSE, nullable |-> TRUE],
      [name |-> "customer_id", type |-> <<"B","o","g","u","s">>,
            is_pk |-> FALSE, is_fk |-> FALSE, nullable |-> TRUE] }

ColumnLists == UNION { [1..n -> ColumnInputs] : n \in 0..MaxCols }

\* The model stays within the bounds
WithinBounds(r) ==
    /\ Cardinality(DOMAIN r.tables) <= MaxTables
    /\ \A k \in DOMAIN r.tables : Len(r.tables[k].columns) <= MaxCols
    /\ Len(r.relationships) <= MaxRels

Apply(r) ==
    /\ WithinBounds(r)
    /\ tables' = r.tables
    /\ relationships' = r.relationships
    /\ result' = r.exc
    /\ UNCHANGED <<v_sql, v_out, _schema_cache, _session_configs, e_frame, e_db,
                   s_frame, db_version, cache_version, cache_config, c_frame,
                   roles, databases, provisioned_dbs, now, d_frame, p_frames, peer>>

\* ------------------------------------------------------------------------
\* Actions: one per mutation call.  Each action ranges over the outcomes of
\* the call for every input of the small input sets.
\* ------------------------------------------------------------------------
AddTable ==
    \E r \in { add_table(tables, relationships, name, schema, columns) :
                 name \in TableNames, schema \in Schemas, columns \in ColumnLists } :
        Apply(r)

RenameTable ==
    \E r \in { rename_table(tables, relationships, old_name, new_name, schema) :
                 old_name \in TableNames, new_name \in TableNames, schema \in Schemas } :
        Apply(r)

DropTable ==
    \E r \in { drop_table(tables, relationships, name, schema, force) :
                 name \in TableNames, schema \in Schemas, force \in BOOLEAN } :
        Apply(r)

AddColumn ==
    \E r \in { add_column(tables, relationships, table_name, column, schema) :
                 table_name \in TableNames, column \in ColumnInputs, schema \in Schemas } :
        Apply(r)

RenameColumn ==
    \E r \in { rename_column(tables, relationships, table_name, old_col, new_col, schema) :
                 table_name \in TableNames, old_col \in ColumnNames,
                 new_col \in ColumnNames, schema \in Schemas } :
        Apply(r)

DropColumn ==
    \E r \in { drop_column(tables, relationships, table_name, column_name, schema, force) :
                 table_name \in TableNames, column_name \in ColumnNames,
                 schema \in Schemas, force \in BOOLEAN } :
        Apply(r)

AddRelationship ==
    \E r \in { add_relationship(tables, relationships, from_table, from_column,
                                to_table, to_column, from_schema, to_schema) :
                 from_table \in TableNames, from_column \in ColumnNames,
                 to_table \in TableNames, to_column \in ColumnNames,
                 from_schema \in Schemas, to_schema \in Schemas } :
        Apply(r)

RemoveRelationship ==
    \E r \in { remove_relationship(tables, relationships, from_table, from_column,
                                   to_table, to_column, from_schema, to_schema) :
                 from_table \in TableNames, from_column \in ColumnNames,
                 to_table \in TableNames, to_column \in ColumnNames,
                 from_schema \in Schemas, to_schema \in Schemas } :
        Apply(r)

\* CanonicalSchemaModel(): empty tables, empty relationships
\* db.py DatabaseConfig: the database, the user and the password of a connection
\* (host and port are the same for all)
DatabaseConfig(dbname, user, password) == [dbname |-> dbname, user |-> user, password |-> password]

\* _session_configs.get(session_id) of a session with no configuration: None
NoConfig == DatabaseConfig("", "", "")

\* a database of the user's own
Db1Alice == DatabaseConfig("db1", "alice", "pw1")

\* a second session with no configuration
NoPeer == [config |-> NoConfig]

\* no request on the session's connection configuration yet
NoConfigRequest ==
    [op |-> "", response |-> "none", statements |-> <<>>, error |-> <<>>, cleaned_count |-> 0,
     session_id |-> "", infra_error |-> FALSE, dry_run |-> FALSE, ttl_days |-> 0, user |-> ""]

\* execute_sql before a request: conn = None, nothing sent
NoFrame ==
    [pc |-> "start", conn |-> "None", normalized_sql_list |-> <<>>, i |-> 0,
     schema_changed |-> FALSE, response |-> "none"]

NoDb == [executed |-> <<>>, committed |-> FALSE]

\* apply_er_edits / apply_ddl_edit before a request
NoEdit ==
    [pc |-> "start", kind |-> "", ddl_statements |-> <<>>, errors |-> <<>>,
     response |-> "none", failed |-> "",
     before |-> [cache |-> "None", tables |-> <<>>, relationships |-> <<>>]]

Init ==
    /\ tables = <<>>
    /\ relationships = <<>>
    /\ result = "none"
    /\ v_sql = [error |-> FALSE, statements |-> <<>>]
    /\ v_out = [exc |-> "idle", normalized |-> <<>>, warnings |-> <<>>]
    /\ _schema_cache = "model"
    /\ _session_configs = NoConfig
    /\ e_frame = NoFrame
    /\ e_db = NoDb
    /\ s_frame = NoEdit
    /\ db_version = 0
    /\ cache_version = 0
    /\ cache_config = _session_configs
    /\ c_frame = NoConfigRequest
    /\ d_frame = NoDdl
    /\ p_frames = NoRequests
    /\ peer = NoPeer
    /\ roles = {}
    /\ databases = {}
    /\ provisioned_dbs = <<>>
    /\ now = 0

NextModel ==
    \/ AddTable
    \/ RenameTable
    \/ DropTable
    \/ AddColumn
    \/ RenameColumn
    \/ DropColumn
    \/ AddRelationship
    \/ RemoveRelationship

SpecModel == Init /\ [][NextModel]_vars

\* ------------------------------------------------------------------------
\* Properties of the Schema Model
\* ------------------------------------------------------------------------
HasColumn(T, table, column) ==
    table \in DOMAIN T /\ _get_column_by_name(T[table], column) # 0

\* the Column object the name resolves to
ColumnOf(T, table, column) == T[table].columns[_get_column_by_name(T[table], column)]

IsSource(R, table, column) ==
    \E i \in 1..Len(R) : R[i].from_table = table /\ R[i].from_column = column

\* C1: after any sequence of mutation calls from the empty model, every
\* relationship names two tables that are keys of the table map and two
\* columns that are columns of those tables.
C1_NoDanglingRelationship ==
    \A i \in 1..Len(relationships) :
        /\ HasColumn(tables, relationships[i].from_table, relationships[i].from_column)
        /\ HasColumn(tables, relationships[i].to_table, relationships[i].to_column)

\* C1 witness: two relationships survive between two different tables after a
\* successful call.
C1_Witness ==
    /\ result = "none"
    /\ Len(relationships) = 2
    /\ \E i \in 1..Len(relationships) : relationships[i].from_table # relationships[i].to_table

\* C2: after any sequence of mutation calls from the empty model, the source
\* column of every relationship has is_fk = TRUE.
C2_SourceColumnIsFk ==
    \A i \in 1..Len(relationships) :
        /\ HasColumn(tables, relationships[i].from_table, relationships[i].from_column)
        /\ ColumnOf(tables, relationships[i].from_table, relationships[i].from_column).is_fk

\* C2 witness: one column is the source of two relationships (so removing one
\* of them must keep the flag).
C2_Witness ==
    /\ Len(relationships) = 2
    /\ relationships[1].from_table = relationships[2].from_table
    /\ relationships[1].from_column = relationships[2].from_column

\* A step of remove_relationship, of drop_table with force or of drop_column
\* with force
RemovingStep ==
    \/ \E ft \in TableNames, fc \in ColumnNames, tt \in TableNames, tc \in ColumnNames,
          fs \in Schemas, ts \in Schemas :
          LET r == remove_relationship(tables, relationships, ft, fc, tt, tc, fs, ts) IN
          r.exc = "none" /\ tables' = r.tables /\ relationships' = r.relationships
    \/ \E name \in TableNames, schema \in Schemas :
          LET r == drop_table(tables, relationships, name, schema, TRUE) IN
          r.exc = "none" /\ tables' = r.tables /\ relationships' = r.relationships
    \/ \E table_name \in TableNames, column_name \in ColumnNames, schema \in Schemas :
          LET r == drop_column(tables, relationships, table_name, column_name, schema, TRUE) IN
          r.exc = "none" /\ tables' = r.tables /\ relationships' = r.relationships

\* C3: whenever remove_relationship, a forced drop_table or a forced
\* drop_column removes the last relationship that has a column as its source,
\* and the column still exists afterwards, the column's is_fk is FALSE after
\* the operation.
C3_LastRelationshipClearsFk ==
    [][ (result' = "none" /\ RemovingStep) =>
          \A table \in DOMAIN tables, column \in ColumnNames :
             ( /\ IsSource(relationships, table, column)
               /\ ~IsSource(relationships', table, column)
               /\ HasColumn(tables', table, column) )
             => ~ColumnOf(tables', table, column).is_fk ]_vars

\* C4: a mutation call that raises raises SchemaValidationError and leaves
\* tables, columns, column flags and relationships exactly as they were.
C4_RaiseLeavesModelUnchanged ==
    [][ result' # "none" =>
          /\ result' = SchemaValidationError
          /\ tables' = tables
          /\ relationships' = relationships ]_vars

\* C4 witness: a call was rejected on a model that holds a relationship.
C4_Witness ==
    /\ result = SchemaValidationError
    /\ relationships # <<>>

\* ------------------------------------------------------------------------
\* SQL validator (app/nl_to_sql/validator.py)
\*
\* sqlglot.parse is an external collaborator: its result is an input of the
\* model, a ParseError or a list whose entries are expression trees or None
\* (the entry sqlglot yields for an empty statement, as in ";DROP TABLE t").
\* A tree is a record: the class of its root, the classes of the nodes below
\* it, its canonical text, and the parts the validator reads.
\* ------------------------------------------------------------------------
SQLValidationError == "SQLValidationError"

\* Characters of the strings the validator lowercases, uppercases or strips
Chars ==
    ("integer" :> <<"i","n","t","e","g","e","r">>) @@
    ("text" :> <<"t","e","x","t">>) @@
    ("numeric" :> <<"n","u","m","e","r","i","c">>) @@
    ("decimal" :> <<"d","e","c","i","m","a","l">>) @@
    ("SELECT" :> <<"S","E","L","E","C","T">>) @@
    ("INSERT" :> <<"I","N","S","E","R","T">>) @@
    ("CREATE" :> <<"C","R","E","A","T","E">>) @@
    ("WITH" :> <<"W","I","T","H">>) @@
    ("LIMIT" :> <<"L","I","M","I","T">>) @@
    ("1" :> <<"1">>) @@
    ("FROM" :> <<"F","R","O","M">>) @@
    ("x.age" :> <<"x",".","a","g","e">>) @@
    ("AS" :> <<"A","S">>) @@
    ("500" :> <<"5","0","0">>) @@
    ("public" :> <<"p","u","b","l","i","c">>) @@
    ("analytics" :> <<"a","n","a","l","y","t","i","c","s">>) @@
    ("users" :> <<"u","s","e","r","s">>) @@
    ("t" :> <<"t">>) @@
    ("u" :> <<"u">>) @@
    ("Arch" :> <<"A","r","c","h">>) @@
    ("arch" :> <<"a","r","c","h">>) @@
    ("id" :> <<"i","d">>) @@
    ("email" :> <<"e","m","a","i","l">>) @@
    ("address" :> <<"a","d","d","r","e","s","s">>) @@
    ("age" :> <<"a","g","e">>) @@
    ("*" :> <<"*">>) @@
    ("d" :> <<"d">>) @@
    ("x" :> <<"x">>) @@
    ("idx" :> <<"i","d","x">>) @@
    ("RENAME" :> <<"R","E","N","A","M","E">>) @@
    ("rename" :> <<"r","e","n","a","m","e">>) @@
    ("COLUMN" :> <<"C","O","L","U","M","N">>) @@
    ("column" :> <<"c","o","l","u","m","n">>) @@
    ("TO" :> <<"T","O">>) @@
    ("to" :> <<"t","o">>) @@
    ("ALTER" :> <<"A","L","T","E","R">>) @@
    ("alter" :> <<"a","l","t","e","r">>) @@
    ("SET" :> <<"S","E","T">>) @@
    ("set" :> <<"s","e","t">>) @@
    ("DEFAULT" :> <<"D","E","F","A","U","L","T">>) @@
    ("default" :> <<"d","e","f","a","u","l","t">>) @@
    ("'x'" :> <<"'","x","'">>) @@
    ("ADD" :> <<"A","D","D">>) @@
    ("add" :> <<"a","d","d">>) @@
    ("DROP" :> <<"D","R","O","P">>) @@
    ("drop" :> <<"d","r","o","p">>) @@
    ("\"Arch\"" :> <<"\"","A","r","c","h","\"">>) @@
    ("\"arch\"" :> <<"\"","a","r","c","h","\"">>) @@
    ("INT" :> <<"I","N","T">>) @@
    ("int" :> <<"i","n","t">>) @@
    ("TABLE" :> <<"T","A","B","L","E">>) @@
    ("table" :> <<"t","a","b","l","e">>) @@
    ("SCHEMA" :> <<"S","C","H","E","M","A">>) @@
    ("schema" :> <<"s","c","h","e","m","a">>) @@
    ("INDEX" :> <<"I","N","D","E","X">>) @@
    ("index" :> <<"i","n","d","e","x">>) @@
    ("public.users" :> <<"p","u","b","l","i","c",".","u","s","e","r","s">>) @@
    ("public.t" :> <<"p","u","b","l","i","c",".","t">>) @@
    ("public.u" :> <<"p","u","b","l","i","c",".","u">>) @@
    ("public.Arch" :> <<"p","u","b","l","i","c",".","A","r","c","h">>) @@
    ("public.arch" :> <<"p","u","b","l","i","c",".","a","r","c","h">>) @@
    ("public.d" :> <<"p","u","b","l","i","c",".","d">>) @@
    ("analytics.users" :> <<"a","n","a","l","y","t","i","c","s",".","u","s","e","r","s">>) @@
    ("analytics.t" :> <<"a","n","a","l","y","t","i","c","s",".","t">>) @@
    ("analytics.u" :> <<"a","n","a","l","y","t","i","c","s",".","u">>) @@
    ("analytics.Arch" :> <<"a","n","a","l","y","t","i","c","s",".","A","r","c","h">>) @@
    ("analytics.arch" :> <<"a","n","a","l","y","t","i","c","s",".","a","r","c","h">>) @@
    ("analytics.d" :> <<"a","n","a","l","y","t","i","c","s",".","d">>)

StrOf(cs) == CHOOSE str \in DOMAIN Chars : Chars[str] = cs

LowerToUpper == [c \in {UpperToLower[u] : u \in DOMAIN UpperToLower} |->
                    CHOOSE u \in DOMAIN UpperToLower : UpperToLower[u] = c]

\* str.upper() on characters
upper(s) == [i \in 1..Len(s) |-> IF s[i] \in DOMAIN LowerToUpper THEN LowerToUpper[s[i]] ELSE s[i]]

\* str.lower() on a string
lowerS(str) == StrOf(lower(Chars[str]))

\* str.strip('"') on a string
RECURSIVE lstrip_quote(_)
lstrip_quote(s) == IF s # <<>> /\ Head(s) = "\"" THEN lstrip_quote(Tail(s)) ELSE s

RECURSIVE rstrip_quote(_)
rstrip_quote(s) ==
    IF s # <<>> /\ s[Len(s)] = "\"" THEN rstrip_quote(SubSeq(s, 1, Len(s) - 1)) ELSE s

strip_quotes(str) == StrOf(rstrip_quote(lstrip_quote(Chars[str])))

\* keyword in text.upper(), for a text given as its blank-separated words
\* (no keyword the code looks for contains a blank)
InUpper(keyword, words) ==
    \E w \in 1..Len(words) :
        LET u == upper(Chars[words[w]])
            k == Chars[keyword]
        IN \E i \in 1..(Len(u) - Len(k) + 1) : SubSeq(u, i, i + Len(k) - 1) = k

\* list.index(word): position of the first occurrence
index(words, word) ==
    CHOOSE i \in 1..Len(words) : words[i] = word /\ \A j \in 1..(i - 1) : words[j] # word

InList(word, words) == \E i \in 1..Len(words) : words[i] = word

\* An expression tree with nothing in it; the statements below override it
Node ==
    [kind |-> "None", nested |-> <<>>, sql |-> <<>>,
     create_kind |-> "", target |-> "", this_is_table |-> FALSE, db |-> "", name |-> "",
     coldefs |-> <<>>, actions |-> <<>>,
     table_nodes |-> <<>>, column_nodes |-> <<>>, select_aliases |-> {}]

INT == <<"I","N","T">>

ColumnDef(name, type) ==
    [kind |-> "ColumnDef", name |-> name, type |-> type, sql |-> <<name, StrOf(type)>>]

Action(kind, sql) == [kind |-> kind, name |-> "", type |-> <<>>, sql |-> sql]

TableNode(db, name, alias) == [db |-> db, name |-> name, alias |-> alias]

ColumnNode(table, name) == [table |-> table, name |-> name]

\* SELECT 1
SelectOne == [Node EXCEPT !.kind = "Select", !.sql = <<"SELECT", "1">>]

\* SELECT email FROM public.users
SelectUsers ==
    [Node EXCEPT !.kind = "Select", !.sql = <<"SELECT", "email", "FROM", "public.users">>,
                 !.table_nodes = <<TableNode("public", "users", "")>>,
                 !.column_nodes = <<ColumnNode("", "email")>>]

\* INSERT INTO t (id) VALUES (1)
InsertT ==
    [Node EXCEPT !.kind = "Insert", !.sql = <<"INSERT", "INTO", "t", "(id)", "VALUES", "(1)">>,
                 !.table_nodes = <<TableNode("", "t", "")>>]

\* SELECT age FROM u AS x
SelectU ==
    [Node EXCEPT !.kind = "Select", !.sql = <<"SELECT", "x.age", "FROM", "u", "AS", "x">>,
                 !.table_nodes = <<TableNode("", "u", "x")>>,
                 !.column_nodes = <<ColumnNode("x", "age")>>]

\* CREATE TABLE t (id INT)
CreateT ==
    [Node EXCEPT !.kind = "Create", !.sql = <<"CREATE", "TABLE", "t", "(id", "INT)">>,
                 !.create_kind = "TABLE", !.target = "Schema", !.this_is_table = TRUE,
                 !.name = "t", !.coldefs = <<ColumnDef("id", INT)>>]

\* CREATE SCHEMA analytics
CreateSchema ==
    [Node EXCEPT !.kind = "Create", !.sql = <<"CREATE", "SCHEMA", "analytics">>,
                 !.create_kind = "SCHEMA", !.target = "Table", !.db = "analytics"]

\* CREATE INDEX idx ON users (email)
CreateIndex ==
    [Node EXCEPT !.kind = "Create", !.sql = <<"CREATE", "INDEX", "idx", "ON", "users", "(email)">>,
                 !.create_kind = "INDEX", !.target = "Index", !.name = "idx"]

\* ALTER TABLE users ADD COLUMN age INT
AlterAddColumn ==
    [Node EXCEPT !.kind = "Alter",
                 !.sql = <<"ALTER", "TABLE", "users", "ADD", "COLUMN", "age", "INT">>,
                 !.this_is_table = TRUE, !.name = "users",
                 !.actions = <<ColumnDef("age", INT)>>]

\* ALTER TABLE users RENAME COLUMN email TO age
AlterRenameColumn ==
    [Node EXCEPT !.kind = "Alter",
                 !.sql = <<"ALTER", "TABLE", "users", "RENAME", "COLUMN", "email", "TO", "age">>,
                 !.this_is_table = TRUE, !.name = "users",
                 !.actions = <<Action("RenameColumn", <<"RENAME", "COLUMN", "email", "TO", "age">>)>>]

\* ALTER TABLE t RENAME TO u
AlterRenameT ==
    [Node EXCEPT !.kind = "Alter", !.sql = <<"ALTER", "TABLE", "t", "RENAME", "TO", "u">>,
                 !.this_is_table = TRUE, !.name = "t",
                 !.actions = <<Action("AlterRename", <<"RENAME", "TO", "u">>)>>]

\* ALTER TABLE users RENAME TO "Arch"
AlterRenameUsers ==
    [Node EXCEPT !.kind = "Alter",
                 !.sql = <<"ALTER", "TABLE", "users", "RENAME", "TO", "\"Arch\"">>,
                 !.this_is_table = TRUE, !.name = "users",
                 !.actions = <<Action("AlterRename", <<"RENAME", "TO", "\"Arch\"">>)>>]

\* ALTER TABLE users ALTER COLUMN address SET DEFAULT 'x'
AlterColumnAddress ==
    [Node EXCEPT !.kind = "Alter",
                 !.sql = <<"ALTER", "TABLE", "users", "ALTER", "COLUMN", "address",
                           "SET", "DEFAULT", "'x'">>,
                 !.this_is_table = TRUE, !.name = "users",
                 !.actions = <<Action("AlterColumn",
                                      <<"ALTER", "COLUMN", "address", "SET", "DEFAULT", "'x'">>)>>]

\* ALTER TABLE users ALTER COLUMN id SET DEFAULT 'x'
AlterColumnId ==
    [Node EXCEPT !.kind = "Alter",
                 !.sql = <<"ALTER", "TABLE", "users", "ALTER", "COLUMN", "id",
                           "SET", "DEFAULT", "'x'">>,
                 !.this_is_table = TRUE, !.name = "users",
                 !.actions = <<Action("AlterColumn",
                                      <<"ALTER", "COLUMN", "id", "SET", "DEFAULT", "'x'">>)>>]

\* ALTER TABLE users DROP COLUMN email
AlterDropColumn ==
    [Node EXCEPT !.kind = "Alter",
                 !.sql = <<"ALTER", "TABLE", "users", "DROP", "COLUMN", "email">>,
                 !.this_is_table = TRUE, !.name = "users",
                 !.actions = <<Action("Drop", <<"DROP", "COLUMN", "email">>)>>]

\* DROP TABLE t
DropT == [Node EXCEPT !.kind = "Drop", !.sql = <<"DROP", "TABLE", "t">>]

\* UPDATE users SET email = 'x'
UpdateUsers ==
    [Node EXCEPT !.kind = "Update", !.sql = <<"UPDATE", "users", "SET", "email", "=", "'x'">>]

\* TRUNCATE TABLE users
TruncateUsers ==
    [Node EXCEPT !.kind = "TruncateTable", !.sql = <<"TRUNCATE", "TABLE", "users">>]

\* WITH d AS (DELETE FROM users RETURNING id) SELECT id FROM d
WithDelete ==
    [Node EXCEPT !.kind = "Select",
                 !.nested = <<"With", "CTE", "Delete">>,
                 !.sql = <<"WITH", "d", "AS", "(DELETE", "FROM", "users", "RETURNING", "id)",
                           "SELECT", "id", "FROM", "d">>,
                 !.table_nodes = <<TableNode("", "d", ""), TableNode("", "users", "")>>,
                 !.column_nodes = <<ColumnNode("", "id"), ColumnNode("", "id")>>]

\* GRANT SELECT ON users TO PUBLIC
GrantCommand ==
    [Node EXCEPT !.kind = "Command", !.sql = <<"GRANT", "SELECT", "ON", "users", "TO", "PUBLIC">>]

\* the entry for an empty statement
NoneStatement == Node

Statements ==
    { SelectOne, SelectUsers, InsertT, SelectU, CreateT, CreateSchema, CreateIndex,
      AlterAddColumn, AlterRenameColumn, AlterRenameT, AlterRenameUsers,
      AlterColumnAddress, AlterColumnId, AlterDropColumn,
      DropT, UpdateUsers, TruncateUsers, WithDelete, GrantCommand, NoneStatement }

MaxBatch == 3

\* the lists of at most n statements
Batches(n) == UNION { [1..k -> Statements] : k \in 1..n }

\* sqlglot.parse raised sqlglot.errors.ParseError
ParseError == [error |-> TRUE, statements |-> <<>>]

Parsed(statements) == [error |-> FALSE, statements |-> statements]

\* what sqlglot.parse hands back
ParseResults ==
    {ParseError} \cup { Parsed(b) : b \in Batches(MaxBatch) }

\* statement.walk(): the classes of all nodes of the tree
walk(statement) ==
    <<statement.kind>>
        \o [i \in 1..Len(statement.actions) |-> statement.actions[i].kind]
        \o statement.nested

\* _reject_destructive_operations: TRUE iff it raises
_reject_destructive_operations(statement) ==
    \E i \in 1..Len(walk(statement)) :
        walk(statement)[i] \in {"Drop", "Delete", "Update", "TruncateTable"}

\* _is_safe_create
_is_safe_create(statement) ==
    LET kind == IF statement.create_kind # "" THEN upper(Chars[statement.create_kind])
                ELSE <<>>   \* None
    IN
    IF kind = Chars["SCHEMA"] THEN TRUE
    ELSE IF statement.target = "Schema" THEN TRUE
    ELSE IF statement.target = "Table" THEN kind \in {<<>>, Chars["TABLE"]}
    ELSE FALSE

\* _is_safe_alter_table_non_destructive
_is_safe_alter_table_non_destructive(statement) ==
    IF ~statement.this_is_table THEN FALSE
    ELSE IF statement.actions = <<>> THEN FALSE
    ELSE \A i \in 1..Len(statement.actions) :
            LET action == statement.actions[i] IN
            \/ action.kind = "ColumnDef"
            \/ InUpper("ADD", action.sql) /\ InUpper("COLUMN", action.sql)
            \/ InUpper("RENAME", action.sql) /\ InUpper("TO", action.sql)

\* _enforce_allowed_statement: TRUE iff it raises
_enforce_allowed_statement(statement) ==
    IF statement.kind \in {"Select", "Union", "With", "Subquery"} THEN FALSE
    ELSE IF statement.kind = "Insert" THEN FALSE
    ELSE IF statement.kind = "Create" THEN ~_is_safe_create(statement)
    ELSE IF statement.kind = "Alter" THEN ~_is_safe_alter_table_non_destructive(statement)
    ELSE TRUE

\* Column(name, type, nullable=True, is_pk=False, is_fk=False)
NewColumn(name, type) ==
    [name |-> name, type |-> type, is_pk |-> FALSE, is_fk |-> FALSE, nullable |-> TRUE]

\* _extract_table_from_create: <<>> for None, else <<schema_name, table_name, cols>>
_extract_table_from_create(statement) ==
    LET \* target.name of an exp.Schema wrapping a Table is the empty string
        target_name == IF statement.target = "Schema" THEN "" ELSE statement.name
        table_name ==
            IF statement.target = "Schema"
            THEN IF statement.this_is_table THEN statement.name ELSE target_name
            ELSE IF statement.target = "Table" THEN statement.name
            ELSE ""   \* None
        schema_name ==
            IF statement.target = "Schema" /\ statement.this_is_table
            THEN IF statement.db # "" THEN statement.db
                 ELSE IF target_name # "" THEN target_name ELSE "public"
            ELSE IF statement.target \in {"Schema", "Table"} /\ statement.db # ""
            THEN statement.db
            ELSE "public"
        cols == [i \in 1..Len(statement.coldefs) |->
                    NewColumn(statement.coldefs[i].name, statement.coldefs[i].type)]
    IN IF table_name = "" THEN <<>> ELSE <<schema_name, table_name, cols>>

\* The working copy is a dict of references to Table objects.  An entry
\* holds the object and whether it is the very object the Schema Model holds
\* under the key `origin` (shared) or an object of the working copy alone.
Entry(table, shared, origin) == [table |-> table, shared |-> shared, origin |-> origin]

\* copy.copy: a new dict holding the Schema Model's own Table objects
copy_copy(T) == [k \in DOMAIN T |-> Entry(T[k], TRUE, k)]

\* copy.deepcopy: a new dict holding new Table objects
copy_deepcopy(T) == [k \in DOMAIN T |-> Entry(T[k], FALSE, k)]

\* temp_tables[key] = entry
Put(temp, key, entry) == [k \in (DOMAIN temp) \cup {key} |-> IF k = key THEN entry ELSE temp[k]]

\* An assignment to a field of table_obj: seen through every reference to it
SetObj(st, table) ==
    [st EXCEPT !.obj.table = table,
               !.temp = IF st.live THEN [@ EXCEPT ![st.fqn].table = table] ELSE @,
               !.model = IF st.obj.shared THEN [@ EXCEPT ![st.obj.origin] = table] ELSE @]

\* one iteration of the loop over the actions of an ALTER
apply_action(st, schema_name, action) ==
    IF action.kind = "ColumnDef"
    THEN SetObj(st, [st.obj.table EXCEPT
                        !.columns = Append(@, NewColumn(action.name, action.type))])
    ELSE IF InUpper("RENAME", action.sql) /\ InUpper("COLUMN", action.sql)
    THEN
        IF InList("COLUMN", action.sql) /\ InList("TO", action.sql)
              /\ index(action.sql, "COLUMN") < Len(action.sql)
              /\ index(action.sql, "TO") < Len(action.sql)
        THEN
            LET old_col == strip_quotes(action.sql[index(action.sql, "COLUMN") + 1])
                new_col == strip_quotes(action.sql[index(action.sql, "TO") + 1])
                i == _get_column_by_name(st.obj.table, old_col)
            IN IF i = 0 THEN st
               ELSE SetObj(st, [st.obj.table EXCEPT !.columns[i].name = new_col])
        ELSE st
    ELSE IF InUpper("RENAME", action.sql) /\ InUpper("TO", action.sql)
              /\ ~InUpper("COLUMN", action.sql)
    THEN
        IF InList("TO", action.sql) /\ index(action.sql, "TO") < Len(action.sql)
        THEN
            LET new_table == strip_quotes(action.sql[index(action.sql, "TO") + 1])
                new_fqn == FQN(schema_name, new_table)
                st1 == SetObj(st, [st.obj.table EXCEPT !.name = new_table])
                temp1 == Put(st1.temp, new_fqn, st1.obj)
                temp2 == IF st.fqn \in DOMAIN temp1 THEN Remove(temp1, st.fqn) ELSE temp1
            IN [st1 EXCEPT !.temp = temp2, !.fqn = new_fqn, !.live = (new_fqn \in DOMAIN temp2)]
        ELSE st
    ELSE st

RECURSIVE apply_actions(_, _, _, _)
apply_actions(st, schema_name, actions, i) ==
    IF i > Len(actions) THEN st
    ELSE apply_actions(apply_action(st, schema_name, actions[i]), schema_name, actions, i + 1)

\* _apply_alter_to_temp_tables; ctx = [temp, model]
_apply_alter_to_temp_tables(statement, ctx) ==
    IF ~statement.this_is_table THEN ctx
    ELSE
        LET schema_name == IF statement.db # "" THEN statement.db ELSE "public"
            fqn == FQN(schema_name, statement.name)
        IN
        IF fqn \notin DOMAIN ctx.temp THEN ctx
        ELSE
            LET st == apply_actions([temp |-> ctx.temp, model |-> ctx.model,
                                     obj |-> ctx.temp[fqn], fqn |-> fqn, live |-> TRUE],
                                    schema_name, statement.actions, 1)
            IN [temp |-> st.temp, model |-> st.model]

\* a loop body that does not record the created table
track_create_forgets(statement, ctx) == ctx

\* the CREATE branch of the loop body (validator.py 31-40)
track_create(statement, ctx) ==
    LET table_info == _extract_table_from_create(statement) IN
    IF table_info = <<>> THEN ctx
    ELSE [ctx EXCEPT !.temp =
            Put(@, FQN(table_info[1], table_info[2]),
                Entry([name |-> table_info[2], schema |-> table_info[1],
                       columns |-> table_info[3]], FALSE, ""))]

TableNotFound(name) == [warning |-> "Table not found in schema", name |-> name, table |-> ""]

ColumnNotFound(name, table) ==
    [warning |-> "Column not found in table", name |-> name, table |-> table]

ColumnNotFoundAny(name) ==
    [warning |-> "Column not found in any referenced tables", name |-> name, table |-> ""]

\* valid_tables of _validate_schema_references; T maps a key to a Table
valid_tables(T) == UNION { {lowerS(k), lowerS(T[k].name)} : k \in DOMAIN T }

ColumnSet(table) == { lowerS(table.columns[i].name) : i \in 1..Len(table.columns) }

\* table_to_columns after the first loop (153-164).  The inputs of the model
\* never put two tables under one lowercased name, so the order of the dict
\* does not matter.
table_to_columns(T) ==
    [n \in valid_tables(T) |->
        ColumnSet(T[CHOOSE k \in DOMAIN T : n \in {lowerS(k), lowerS(T[k].name)}])]

\* the loop over parsed.find_all(exp.Table) (191-219);
\* acc = [referenced_tables, table_to_columns, warnings]
RECURSIVE table_loop(_, _, _, _)
table_loop(nodes, i, valid, acc) ==
    IF i > Len(nodes) THEN acc
    ELSE
        LET table_node == nodes[i]
            table_name == lowerS(table_node.name)
            actual_table == IF table_node.db # ""
                            THEN lowerS(table_node.db) \o "." \o table_name
                            ELSE table_name
            ttc == IF table_node.alias # "" /\ actual_table \in DOMAIN acc.table_to_columns
                   THEN Put(acc.table_to_columns, lowerS(table_node.alias),
                            acc.table_to_columns[actual_table])
                   ELSE acc.table_to_columns
            warn == IF table_name \notin valid
                    THEN IF table_node.db # ""
                         THEN IF lowerS(table_node.db \o "." \o table_name) \notin valid
                              THEN <<TableNotFound(table_node.db \o "." \o table_name)>>
                              ELSE <<>>
                         ELSE <<TableNotFound(table_name)>>
                    ELSE <<>>
        IN table_loop(nodes, i + 1, valid,
                      [referenced_tables |-> acc.referenced_tables \cup {actual_table},
                       table_to_columns |-> ttc,
                       warnings |-> acc.warnings \o warn])

\* the loop over parsed.find_all(exp.Column) (222-247)
RECURSIVE column_loop(_, _, _, _, _)
column_loop(nodes, i, derived_columns, acc, warnings) ==
    IF i > Len(nodes) THEN warnings
    ELSE
        LET column_node == nodes[i]
            column_name == lowerS(column_node.name)
            warn ==
                IF column_name = "*" THEN <<>>
                ELSE IF column_node.table = "" /\ column_name \in derived_columns THEN <<>>
                ELSE IF column_node.table # ""
                THEN LET table_name == lowerS(column_node.table) IN
                     IF table_name \in DOMAIN acc.table_to_columns
                           /\ column_name \notin acc.table_to_columns[table_name]
                     THEN <<ColumnNotFound(column_name, table_name)>>
                     ELSE <<>>
                ELSE
                    LET found == \E t \in acc.referenced_tables :
                                    /\ t \in DOMAIN acc.table_to_columns
                                    /\ column_name \in acc.table_to_columns[t]
                    IN IF ~found /\ acc.referenced_tables # {}
                       THEN <<ColumnNotFoundAny(column_name)>>
                       ELSE <<>>
        IN column_loop(nodes, i + 1, derived_columns, acc, warnings \o warn)

\* _validate_schema_references
_validate_schema_references(parsed, T) ==
    LET derived_columns == IF parsed.kind \in {"Select", "Union", "With", "Subquery"}
                           THEN { lowerS(a) : a \in parsed.select_aliases }
                           ELSE {}
        acc == table_loop(parsed.table_nodes, 1, valid_tables(T),
                          [referenced_tables |-> {},
                           table_to_columns |-> table_to_columns(T),
                           warnings |-> <<>>])
    IN column_loop(parsed.column_nodes, 1, derived_columns, acc, acc.warnings)

\* What a call hands to its caller: the exception it raised ("none" if it
\* returned), the two lists it returned, and the Schema Model after the call.
ReturnV(normalized_statements, warnings, model) ==
    [exc |-> "none", normalized |-> normalized_statements, warnings |-> warnings,
     model |-> model]

\* a raise that hands the lists built so far to the caller
RaiseV_keeps_lists(exc, normalized_statements, warnings, model) ==
    [exc |-> exc, normalized |-> normalized_statements, warnings |-> warnings,
     model |-> model]

\* raise: the local lists are lost with the frame
RaiseV(exc, normalized_statements, warnings, model) ==
    [exc |-> exc, normalized |-> <<>>, warnings |-> <<>>, model |-> model]

\* the tables of temp_model
TempTables(ctx) == [k \in DOMAIN ctx.temp |-> ctx.temp[k].table]

\* the loop over the statements (validator.py 26-58)
RECURSIVE validate_loop(_, _, _, _, _)
validate_loop(statements, i, ctx, normalized_statements, warnings) ==
    IF i > Len(statements) THEN ReturnV(normalized_statements, warnings, ctx.model)
    ELSE
        LET statement == statements[i] IN
        IF statement.kind = "None"
        THEN RaiseV("AttributeError", normalized_statements, warnings, ctx.model)
        ELSE IF _reject_destructive_operations(statement)
        THEN RaiseV(SQLValidationError, normalized_statements, warnings, ctx.model)
        ELSE IF _enforce_allowed_statement(statement)
        THEN RaiseV(SQLValidationError, normalized_statements, warnings, ctx.model)
        ELSE
            LET ctx1 == IF statement.kind = "Create" /\ _is_safe_create(statement)
                        THEN track_create(statement, ctx)
                        ELSE IF statement.kind = "Alter"
                                  /\ _is_safe_alter_table_non_destructive(statement)
                        THEN _apply_alter_to_temp_tables(statement, ctx)
                        ELSE ctx
                schema_warnings ==
                    IF statement.kind \in {"Select", "Union", "With", "Subquery", "Insert"}
                    THEN _validate_schema_references(statement, TempTables(ctx1))
                    ELSE <<>>
            IN validate_loop(statements, i + 1, ctx1,
                             Append(normalized_statements, statement.sql),
                             warnings \o schema_warnings)

\* a validator that accepts one statement only
validate_and_normalize_sql_single_only(parsed, T) ==
    IF parsed.error THEN RaiseV(SQLValidationError, <<>>, <<>>, T)
    ELSE IF parsed.statements = <<>> THEN RaiseV(SQLValidationError, <<>>, <<>>, T)
    ELSE IF Len(parsed.statements) > 1 THEN RaiseV(SQLValidationError, <<>>, <<>>, T)
    ELSE validate_loop(parsed.statements, 1,
                       [temp |-> copy_deepcopy(T), model |-> T], <<>>, <<>>)

\* validate_and_normalize_sql(sql, schema_model); parsed = sqlglot.parse(sql)
validate_and_normalize_sql(parsed, T) ==
    IF parsed.error THEN RaiseV(SQLValidationError, <<>>, <<>>, T)
    ELSE IF parsed.statements = <<>> THEN RaiseV(SQLValidationError, <<>>, <<>>, T)
    ELSE validate_loop(parsed.statements, 1,
                       [temp |-> copy_deepcopy(T), model |-> T], <<>>, <<>>)

\* ------------------------------------------------------------------------
\* Specification of the validator: a Schema Model, then calls on it
\* ------------------------------------------------------------------------
text == <<"t","e","x","t">>

\* public.users(id PK, email, address)
UsersModel ==
    FQN("public", "users") :>
        [name |-> "users", schema |-> "public",
         columns |-> << [name |-> "id", type |-> integer, is_pk |-> TRUE, is_fk |-> FALSE,
                         nullable |-> FALSE],
                        [name |-> "email", type |-> text, is_pk |-> FALSE, is_fk |-> FALSE,
                         nullable |-> FALSE],
                        [name |-> "address", type |-> text, is_pk |-> FALSE, is_fk |-> FALSE,
                         nullable |-> TRUE] >>]

InitValidator ==
    /\ tables \in {<<>>, UsersModel}
    /\ relationships = <<>>
    /\ result = "none"
    /\ v_sql = [error |-> FALSE, statements |-> <<>>]
    /\ v_out = [exc |-> "idle", normalized |-> <<>>, warnings |-> <<>>]
    /\ _schema_cache = "model"
    /\ _session_configs = NoConfig
    /\ e_frame = NoFrame
    /\ e_db = NoDb
    /\ s_frame = NoEdit
    /\ db_version = 0
    /\ cache_version = 0
    /\ cache_config = _session_configs
    /\ c_frame = NoConfigRequest
    /\ d_frame = NoDdl
    /\ p_frames = NoRequests
    /\ peer = NoPeer
    /\ roles = {}
    /\ databases = {}
    /\ provisioned_dbs = <<>>
    /\ now = 0

\* one call of validate_and_normalize_sql on the Schema Model
Validate ==
    /\ v_out.exc = "idle"
    /\ \E parsed \in ParseResults :
        \E r \in {validate_and_normalize_sql(parsed, tables)} :
            /\ v_sql' = parsed
            /\ v_out' = [exc |-> r.exc, normalized |-> r.normalized, warnings |-> r.warnings]
            /\ tables' = r.model
            /\ UNCHANGED <<relationships, result, _schema_cache, _session_configs, e_frame, e_db,
                           s_frame, db_version, cache_version, cache_config, c_frame,
                   roles, databases, provisioned_dbs, now, d_frame, p_frames, peer>>

NextValidator == Validate

SpecValidator == InitValidator /\ [][NextValidator]_vars

\* ------------------------------------------------------------------------
\* Properties of the validator
\* ------------------------------------------------------------------------
Called == v_out.exc # "idle"

Batch == v_sql.statements

Raised == v_out.exc \notin {"idle", "none"}

\* the warnings statement j adds to the list when the batch is validated
\* against the Schema Model T: what the call returns for the first j
\* statements, less what it returns for the first j - 1
WarningsOf(T, j) ==
    LET upto(n) == validate_and_normalize_sql(Parsed(SubSeq(Batch, 1, n)), T).warnings
    IN SubSeq(upto(j), Len(upto(j - 1)) + 1, Len(upto(j)))

ReturnsUpTo(T, j) == validate_and_normalize_sql(Parsed(SubSeq(Batch, 1, j)), T).exc = "none"

\* C5: if any statement of the batch has a Drop, Delete, Update or
\* TruncateTable node anywhere in its tree, the call raises
\* SQLValidationError.
C5_DestructiveRaisesSQLValidationError ==
    (Called /\ \E i \in 1..Len(Batch) :
                 \E n \in 1..Len(walk(Batch[i])) :
                    walk(Batch[i])[n] \in {"Drop", "Delete", "Update", "TruncateTable"})
        => v_out.exc = SQLValidationError

\* C6: an ALTER TABLE is accepted only if every one of its actions is an
\* add-column or a rename of a column or of the table, whatever words its
\* text contains.
C6_AlterAcceptedOnlyIfAddOrRename ==
    (Called /\ v_out.exc = "none") =>
        \A i \in 1..Len(Batch) :
            Batch[i].kind = "Alter" =>
                \A a \in 1..Len(Batch[i].actions) :
                    Batch[i].actions[a].kind \in {"ColumnDef", "RenameColumn", "AlterRename"}

\* C7: if the parse fails or any statement of the batch has a destructive
\* construct or a disallowed kind, the call raises and hands back no
\* normalized SQL and no warnings, whatever preceded the offending statement.
C7_FatalAbortsWholeBatch ==
    (Called /\ ( \/ v_sql.error
                 \/ \E i \in 1..Len(Batch) :
                       \/ _reject_destructive_operations(Batch[i])
                       \/ Batch[i].kind # "None" /\ _enforce_allowed_statement(Batch[i]) ))
        => /\ Raised
           /\ v_out.normalized = <<>>
           /\ v_out.warnings = <<>>

\* C7 witness: a batch was rejected at its second statement after a first
\* statement that is permitted and draws a warning.
C7_Witness ==
    /\ Raised
    /\ tables = <<>>
    /\ Batch = <<InsertT, DropT>>

\* C8: a call leaves the Schema Model passed to it unchanged, whether it
\* returns, returns warnings or raises.
C8_SchemaModelUnchanged == [][tables' = tables]_vars

\* C8 witness: a call returned after an ALTER of a table of the Schema Model.
C8_Witness ==
    /\ v_out.exc = "none"
    /\ tables = UsersModel
    /\ \E i \in 1..Len(Batch) : Batch[i] \in {AlterAddColumn, AlterRenameColumn, AlterRenameUsers}

ReadKinds == {"Select", "Union", "With", "Subquery", "Insert"}

\* a "table not found" warning about the table a node names
NotFoundFor(w, table_node) ==
    \/ w = TableNotFound(lowerS(table_node.name))
    \/ table_node.db # "" /\ w = TableNotFound(table_node.db \o "." \o lowerS(table_node.name))

\* statement j reads or inserts into the table that statement i creates
ReferencesCreated(i, j, table_node) ==
    /\ i < j
    /\ Batch[i].kind = "Create" /\ Batch[i].create_kind = "TABLE" /\ Batch[i].name # ""
    /\ Batch[j].kind \in ReadKinds
    /\ \E n \in 1..Len(Batch[j].table_nodes) : Batch[j].table_nodes[n] = table_node
    /\ lowerS(table_node.name) = lowerS(Batch[i].name)

\* statement k renames the table that statement i creates
RenamesCreated(i, k) ==
    /\ Batch[k].kind = "Alter"
    /\ Batch[k].name = Batch[i].name
    /\ (IF Batch[k].db # "" THEN Batch[k].db ELSE "public")
         = (IF Batch[i].db # "" THEN Batch[i].db ELSE "public")
    /\ \E a \in 1..Len(Batch[k].actions) : Batch[k].actions[a].kind = "AlterRename"

\* C9 as stated: a read or insert that references a table created by a
\* permitted CREATE TABLE earlier in the batch draws no "table not found"
\* warning for it.
C9_CreatedTableIsFound ==
    Called =>
        \A i \in 1..Len(Batch), j \in 1..Len(Batch) :
            \A n \in 1..Len(Batch[j].table_nodes) :
                (ReferencesCreated(i, j, Batch[j].table_nodes[n]) /\ ReturnsUpTo(tables, j))
                    => \A w \in 1..Len(WarningsOf(tables, j)) :
                          ~NotFoundFor(WarningsOf(tables, j)[w], Batch[j].table_nodes[n])

\* C9 amended: the same, provided no ALTER TABLE ... RENAME TO of that table
\* stands between the CREATE TABLE and the referencing statement.
C9_CreatedTableIsFoundUnlessRenamed ==
    Called =>
        \A i \in 1..Len(Batch), j \in 1..Len(Batch) :
            \A n \in 1..Len(Batch[j].table_nodes) :
                ( /\ ReferencesCreated(i, j, Batch[j].table_nodes[n])
                  /\ ReturnsUpTo(tables, j)
                  /\ ~ \E k \in (i + 1)..(j - 1) : RenamesCreated(i, k) )
                    => \A w \in 1..Len(WarningsOf(tables, j)) :
                          ~NotFoundFor(WarningsOf(tables, j)[w], Batch[j].table_nodes[n])

\* C9 witness: CREATE TABLE t (id INT); INSERT INTO t (id) VALUES (1) was
\* validated against a Schema Model without t and drew no warning.
C9_Witness ==
    /\ v_out.exc = "none"
    /\ tables = <<>>
    /\ Batch = <<CreateT, InsertT>>
    /\ v_out.warnings = <<>>

\* ------------------------------------------------------------------------
\* The SQL execution endpoint (app/routes/sql.py, execute_sql)
\*
\* A request is served in steps: validation, opening the connection, the
\* statement timeout, one step per statement of the batch, the commit and
\* refresh, and the finally block.  The database may fail any statement it
\* receives.  The tracking of managed databases (update_db_activity) is left
\* out.
\* ------------------------------------------------------------------------
MaxExecBatch == 2

\* request bodies, as sqlglot parses them
Requests == {ParseError} \cup { Parsed(b) : b \in Batches(MaxExecBatch) }

\* what an introspection of the database may find
IntrospectedModels == {<<>>, UsersModel}

\* get_schema(): the Schema Model the Schema Cache holds
get_schema == tables

\* a guard that lets a batch with warnings through
has_warnings_never(warnings) == FALSE

\* if warnings:
has_warnings(warnings) == warnings # <<>>

\* stmt.lstrip().upper().startswith(("SELECT", "WITH"))
is_select_like(stmt) ==
    LET first == upper(Chars[stmt[1]])
    IN \E keyword \in {"SELECT", "WITH"} :
          /\ Len(first) >= Len(Chars[keyword])
          /\ SubSeq(first, 1, Len(Chars[keyword])) = Chars[keyword]

\* stmt_to_run
stmt_to_run(stmt) ==
    IF is_select_like(stmt) /\ ~InUpper("LIMIT", stmt)
    THEN stmt \o <<"LIMIT", "500">>
    ELSE stmt

\* cursor.execute(text); statement is the position in the batch of the
\* statement the text comes from, 0 for a statement of the endpoint's own
Sent(db, sql_text, statement) ==
    [db EXCEPT !.executed = Append(@, [text |-> sql_text, statement |-> statement])]

\* return or except: the response leaves through the finally block
Respond(frame, response) ==
    [frame EXCEPT !.response = response,
                  !.pc = IF frame.conn = "None" THEN "done" ELSE "finally"]

\* get_schema, validate_and_normalize_sql, if warnings (sql.py 66-73)
ExecuteValidate ==
    /\ e_frame.pc = "start"
    /\ _schema_cache = "model"
    /\ \E parsed \in Requests :
        \E r \in {validate_and_normalize_sql(parsed, get_schema)} :
            /\ v_sql' = parsed
            /\ v_out' = [exc |-> r.exc, normalized |-> r.normalized, warnings |-> r.warnings]
            /\ tables' = r.model
            /\ e_frame' =
                 IF r.exc = SQLValidationError THEN Respond(e_frame, "validation_error")
                 ELSE IF r.exc # "none" THEN Respond(e_frame, "db_error")
                 ELSE IF has_warnings(r.warnings) THEN Respond(e_frame, "validation_error")
                 ELSE [e_frame EXCEPT !.pc = "connect", !.normalized_sql_list = r.normalized]
    /\ UNCHANGED <<relationships, result, _schema_cache, _session_configs, e_db, s_frame, db_version, cache_version>>
    /\ UNCHANGED configVars
    /\ UNCHANGED clusterVars

\* get_connection(session_id), conn.cursor() (sql.py 75-76, db.py 39-54)
GetConnection ==
    /\ e_frame.pc = "connect"
    /\ \E connected \in (IF _session_configs = NoConfig THEN {FALSE} ELSE BOOLEAN) :
        e_frame' = IF connected
                   THEN [e_frame EXCEPT !.pc = "timeout", !.conn = "open"]
                   ELSE Respond(e_frame, "db_error")
    /\ UNCHANGED <<tables, relationships, result, v_sql, v_out,
                   _schema_cache, _session_configs, e_db,
                   s_frame, db_version, cache_version>>
    /\ UNCHANGED configVars
    /\ UNCHANGED clusterVars

\* cursor.execute("SET statement_timeout = '30s'") (sql.py 79-88)
SetStatementTimeout ==
    /\ e_frame.pc = "timeout"
    /\ e_db' = Sent(e_db, <<"SET", "statement_timeout", "=", "'30s'">>, 0)
    /\ \E failed \in BOOLEAN :
        e_frame' = IF failed THEN Respond(e_frame, "db_error")
                   ELSE [e_frame EXCEPT !.pc = "loop", !.i = 1]
    /\ UNCHANGED <<tables, relationships, result, v_sql, v_out,
                   _schema_cache, _session_configs,
                   s_frame, db_version, cache_version>>
    /\ UNCHANGED configVars
    /\ UNCHANGED clusterVars

\* one iteration of the loop over normalized_sql_list (sql.py 90-120)
ExecuteStatement ==
    /\ e_frame.pc = "loop"
    /\ e_frame.i <= Len(e_frame.normalized_sql_list)
    /\ LET stmt == e_frame.normalized_sql_list[e_frame.i] IN
        /\ e_db' = Sent(e_db, stmt_to_run(stmt), e_frame.i)
        /\ \E failed \in BOOLEAN :
            e_frame' = IF failed THEN Respond(e_frame, "db_error")
                       ELSE [e_frame EXCEPT
                               !.i = @ + 1,
                               !.schema_changed = @ \/ ~is_select_like(stmt)]
    /\ UNCHANGED <<tables, relationships, result, v_sql, v_out,
                   _schema_cache, _session_configs,
                   s_frame, db_version, cache_version>>
    /\ UNCHANGED configVars
    /\ UNCHANGED clusterVars

\* after the loop: conn.commit() and refresh_schema(conn) if the schema
\* changed, then the response (sql.py 122-142, cache.py 23-33)
CommitAndRefresh ==
    /\ e_frame.pc = "loop"
    /\ e_frame.i > Len(e_frame.normalized_sql_list)
    /\ IF e_frame.schema_changed
       THEN \/ \* conn.commit() raises
               /\ e_frame' = Respond(e_frame, "db_error")
               /\ UNCHANGED <<tables, relationships, _schema_cache, e_db,
                              db_version, cache_version>>
            \/ \* the introspection raises after clear_schema_cache()
               /\ e_db' = [e_db EXCEPT !.committed = TRUE]
               /\ db_version' = db_version + 1
               /\ _schema_cache' = "None"
               /\ e_frame' = Respond(e_frame, "result")
               /\ UNCHANGED <<tables, relationships, cache_version>>
            \/ \* set_cached_schema(schema_model)
               /\ e_db' = [e_db EXCEPT !.committed = TRUE]
               /\ db_version' = db_version + 1
               /\ _schema_cache' = "model"
               /\ cache_version' = db_version + 1
               /\ tables' \in IntrospectedModels
               /\ relationships' = <<>>
               /\ e_frame' = Respond(e_frame, "result")
       ELSE /\ e_frame' = Respond(e_frame, "result")
            /\ UNCHANGED <<tables, relationships, _schema_cache, e_db,
                           db_version, cache_version>>
    /\ UNCHANGED <<result, v_sql, v_out, _session_configs, s_frame>>
    /\ cache_config' = IF _schema_cache' = "model" /\ db_version' # db_version
                       THEN _session_configs ELSE cache_config
    /\ UNCHANGED <<c_frame, d_frame, p_frames, peer>>
    /\ UNCHANGED clusterVars

\* a connection that commits the open transaction when it is closed
conn_close_commits(db) == [db EXCEPT !.committed = db.executed # <<>>]

\* conn.close() (sql.py 160-161) on a connection that psycopg2.connect
\* opened with autocommit off (db.py 47): the open transaction is discarded,
\* what was committed stays
conn_close(db) == db

\* finally: cursor.close(), conn.close() (sql.py 156-161)
Finally ==
    /\ e_frame.pc = "finally"
    /\ e_frame' = [e_frame EXCEPT !.pc = "done", !.conn = "closed"]
    /\ e_db' = conn_close(e_db)
    /\ UNCHANGED <<tables, relationships, result, v_sql, v_out,
                   _schema_cache, _session_configs,
                   s_frame, db_version, cache_version>>
    /\ UNCHANGED configVars
    /\ UNCHANGED clusterVars

InitSql ==
    /\ tables \in {<<>>, UsersModel}
    /\ relationships = <<>>
    /\ result = "none"
    /\ v_sql = [error |-> FALSE, statements |-> <<>>]
    /\ v_out = [exc |-> "idle", normalized |-> <<>>, warnings |-> <<>>]
    /\ _schema_cache = "model"
    /\ _session_configs \in {NoConfig, Db1Alice}
    /\ e_frame = NoFrame
    /\ e_db = NoDb
    /\ s_frame = NoEdit
    /\ db_version = 0
    /\ cache_version = 0
    /\ cache_config = _session_configs
    /\ c_frame = NoConfigRequest
    /\ d_frame = NoDdl
    /\ p_frames = NoRequests
    /\ peer = NoPeer
    /\ roles = {}
    /\ databases = {}
    /\ provisioned_dbs = <<>>
    /\ now = 0

NextSql ==
    \/ ExecuteValidate
    \/ GetConnection
    \/ SetStatementTimeout
    \/ ExecuteStatement
    \/ CommitAndRefresh
    \/ Finally

SpecSql == InitSql /\ [][NextSql]_vars

\* C10: when the validation of a request raised or returned a non-empty
\* warning list, the connection receives no statement of that request.
C10_NoStatementSentUnlessValidated ==
    (Raised \/ v_out.warnings # <<>>) =>
        \A k \in 1..Len(e_db.executed) : e_db.executed[k].statement = 0

\* C10 witness: a request whose validation returned warnings has been
\* answered, in a session that has a database to connect to.
C10_Witness ==
    /\ _session_configs # NoConfig
    /\ v_out.exc = "none"
    /\ v_out.warnings # <<>>
    /\ e_frame.pc = "done"
    /\ e_frame.response = "validation_error"

\* ------------------------------------------------------------------------
\* Structural edits (app/routes/schema.py, app/schema/ddl_executor.py)
\*
\* apply_er_edits applies the actions of a request to the Schema Model that
\* get_or_refresh_schema returns, which is the object the Schema Cache holds,
\* and collects one DDL statement per action.  routes/schema.py calls
\* get_connection() and get_database_config() without a session id; they are
\* given the one session of the model.
\* ------------------------------------------------------------------------
MaxActions == 2

\* an ERAction with nothing set; table is action.table.split(".")
NoAction ==
    [type |-> "", name |-> "", schema |-> "public", table |-> <<>>,
     columns |-> <<>>, column |-> <<>>, old_name |-> "", new_name |-> "",
     old_col |-> "", new_col |-> "", column_name |-> "", force |-> FALSE,
     from_table |-> <<>>, from_column |-> "", to_table |-> <<>>, to_column |-> ""]

IdColumn ==
    [name |-> "id", type |-> integer, is_pk |-> TRUE, is_fk |-> FALSE, nullable |-> FALSE]

AgeColumn ==
    [name |-> "age", type |-> integer, is_pk |-> FALSE, is_fk |-> FALSE, nullable |-> TRUE]

\* the actions a request is made of
ERActions ==
    { [NoAction EXCEPT !.type = "add_table", !.name = "t", !.columns = <<IdColumn>>],
      [NoAction EXCEPT !.type = "add_column", !.table = <<"users">>, !.column = <<AgeColumn>>],
      [NoAction EXCEPT !.type = "rename_column", !.table = <<"public", "users">>,
                       !.old_col = "email", !.new_col = "id"],
      [NoAction EXCEPT !.type = "drop_table", !.name = "users"],
      [NoAction EXCEPT !.type = "rename_table", !.old_name = "t", !.new_name = "u"],
      [NoAction EXCEPT !.type = "merge_table", !.name = "users"] }

EREditRequests == UNION { [1..n -> ERActions] : n \in 0..MaxActions }

\* schema_name, table_name of an action on a column
action_schema(action) == IF Len(action.table) = 2 THEN action.table[1] ELSE action.schema

action_table(action) == IF Len(action.table) = 2 THEN action.table[2] ELSE action.table[1]

\* _apply_single_action(schema_model, action)
_apply_single_action(T, R, action) ==
    CASE action.type = "add_table" ->
            add_table(T, R, action.name, action.schema, action.columns)
      [] action.type = "rename_table" ->
            rename_table(T, R, action.old_name, action.new_name, action.schema)
      [] action.type = "drop_table" ->
            drop_table(T, R, action.name, action.schema, action.force)
      [] action.type = "add_column" ->
            add_column(T, R, action_table(action), action.column[1], action_schema(action))
      [] action.type = "rename_column" ->
            rename_column(T, R, action_table(action), action.old_col, action.new_col,
                          action_schema(action))
      [] action.type = "drop_column" ->
            drop_column(T, R, action_table(action), action.column_name, action_schema(action),
                        action.force)
      [] action.type = "add_relationship" ->
            add_relationship(T, R, action.from_table[Len(action.from_table)],
                             action.from_column, action.to_table[Len(action.to_table)],
                             action.to_column,
                             IF Len(action.from_table) = 2 THEN action.from_table[1] ELSE "public",
                             IF Len(action.to_table) = 2 THEN action.to_table[1] ELSE "public")
      [] action.type = "remove_relationship" ->
            remove_relationship(T, R, action.from_table[Len(action.from_table)],
                                action.from_column, action.to_table[Len(action.to_table)],
                                action.to_column,
                                IF Len(action.from_table) = 2 THEN action.from_table[1] ELSE "public",
                                IF Len(action.to_table) = 2 THEN action.to_table[1] ELSE "public")
      [] OTHER -> [exc |-> "ValueError", tables |-> T, relationships |-> R]

\* A DDL text is the sequence of the pieces it is put together from: the
\* literal parts of the f-strings and the values they interpolate.

\* f'"{identifier}"'
Quoted(identifier) == <<"\"", identifier, "\"">>

\* sep.join(parts), each part a sequence of pieces
RECURSIVE join(_, _)
join(parts, sep) ==
    IF parts = <<>> THEN <<>>
    ELSE IF Len(parts) = 1 THEN parts[1]
    ELSE parts[1] \o <<sep>> \o join(Tail(parts), sep)

\* _extract_action_params(action)
_extract_action_params(action) ==
    [name |-> action.name, schema |-> action.schema, columns |-> action.columns,
     old_name |-> action.old_name, new_name |-> action.new_name, force |-> action.force,
     table_name |-> IF action.table = <<>> THEN "" ELSE action_table(action),
     column |-> action.column, old_col |-> action.old_col, new_col |-> action.new_col,
     column_name |-> action.column_name,
     from_schema |-> IF Len(action.from_table) = 2 THEN action.from_table[1] ELSE "public",
     from_table |-> IF action.from_table = <<>> THEN ""
                    ELSE action.from_table[Len(action.from_table)],
     from_column |-> action.from_column,
     to_schema |-> IF Len(action.to_table) = 2 THEN action.to_table[1] ELSE "public",
     to_table |-> IF action.to_table = <<>> THEN "" ELSE action.to_table[Len(action.to_table)],
     to_column |-> action.to_column,
     column_schema |-> IF action.table = <<>> THEN action.schema ELSE action_schema(action)]

\* " ".join(parts) of a column: its quoted name, its type, NOT NULL
column_def(col) ==
    Quoted(col.name) \o <<" ", StrOf(col.type)>>
    \o (IF col.nullable THEN <<>> ELSE <<" ", "NOT NULL">>)

column_defs(columns) == [i \in 1..Len(columns) |-> column_def(columns[i])]

\* _generate_create_table, line 52: the text for a table without columns
_generate_create_table_empty(params) ==
    <<"CREATE TABLE ">> \o Quoted(params.schema) \o <<".", params.name, "\"", " ()">>

\* a variant that names the primary key constraint after schema and table
pk_constraint_with_schema(params, pk_columns) ==
    <<"CONSTRAINT ">> \o Quoted(params.schema \o "_" \o params.name \o "_pkey")
    \o <<" PRIMARY KEY (">>
    \o join([i \in 1..Len(pk_columns) |-> Quoted(pk_columns[i])], ", ") \o <<")">>

\* _generate_create_table, lines 75-76
pk_constraint(params, pk_columns) ==
    <<"CONSTRAINT ">> \o Quoted(params.name \o "_pkey") \o <<" PRIMARY KEY (">>
    \o join([i \in 1..Len(pk_columns) |-> Quoted(pk_columns[i])], ", ") \o <<")">>

\* _generate_create_table(params)
_generate_create_table(params) ==
    IF params.columns = <<>> THEN _generate_create_table_empty(params)
    ELSE LET pk == SelectSeq(params.columns, LAMBDA col : col.is_pk)
             pk_columns == [i \in 1..Len(pk) |-> pk[i].name]
             col_defs == column_defs(params.columns)
                         \o (IF pk_columns # <<>> THEN <<pk_constraint(params, pk_columns)>>
                             ELSE <<>>)
         IN  <<"CREATE TABLE ">> \o Quoted(params.schema) \o <<".">> \o Quoted(params.name)
             \o <<" (\n    ">> \o join(col_defs, ",\n    ") \o <<"\n)">>

\* _generate_rename_table(params)
_generate_rename_table(params) ==
    <<"ALTER TABLE ">> \o Quoted(params.schema) \o <<".">> \o Quoted(params.old_name)
    \o <<" RENAME TO ">> \o Quoted(params.new_name)

\* _generate_drop_table(params)
_generate_drop_table(params) ==
    <<"DROP TABLE ">> \o Quoted(params.schema) \o <<".">> \o Quoted(params.name)
    \o (IF params.force THEN <<" CASCADE">> ELSE <<>>)

\* _generate_add_column(params)
_generate_add_column(params) ==
    <<"ALTER TABLE ">> \o Quoted(params.column_schema) \o <<".">> \o Quoted(params.table_name)
    \o <<" ADD COLUMN ">> \o column_def(params.column[1])

\* _generate_rename_column(params)
_generate_rename_column(params) ==
    <<"ALTER TABLE ">> \o Quoted(params.column_schema) \o <<".">> \o Quoted(params.table_name)
    \o <<" RENAME COLUMN ">> \o Quoted(params.old_col) \o <<" TO ">> \o Quoted(params.new_col)

\* _generate_drop_column(params)
_generate_drop_column(params) ==
    <<"ALTER TABLE ">> \o Quoted(params.column_schema) \o <<".">> \o Quoted(params.table_name)
    \o <<" DROP COLUMN ">> \o Quoted(params.column_name)
    \o (IF params.force THEN <<" CASCADE">> ELSE <<>>)

\* _generate_add_foreign_key(params)
_generate_add_foreign_key(params) ==
    LET constraint_name == params.from_table \o "_" \o params.from_column \o "_fkey" IN
    <<"ALTER TABLE ">> \o Quoted(params.from_schema) \o <<".">> \o Quoted(params.from_table)
    \o <<" ", "ADD CONSTRAINT ">> \o Quoted(constraint_name)
    \o <<" ", "FOREIGN KEY (">> \o Quoted(params.from_column) \o <<") ", "REFERENCES ">>
    \o Quoted(params.to_schema) \o <<".">> \o Quoted(params.to_table)
    \o <<" (">> \o Quoted(params.to_column) \o <<")">>

\* _generate_drop_foreign_key(params)
_generate_drop_foreign_key(params) ==
    LET constraint_name == params.from_table \o "_" \o params.from_column \o "_fkey" IN
    <<"ALTER TABLE ">> \o Quoted(params.from_schema) \o <<".">> \o Quoted(params.from_table)
    \o <<" DROP CONSTRAINT ">> \o Quoted(constraint_name)

\* generate_ddl_from_action(action.type, _extract_action_params(action), schema_model):
\* the text it returns
generate_ddl_from_action(action) ==
    LET params == _extract_action_params(action) IN
    CASE action.type = "add_table" -> _generate_create_table(params)
      [] action.type = "rename_table" -> _generate_rename_table(params)
      [] action.type = "drop_table" -> _generate_drop_table(params)
      [] action.type = "add_column" -> _generate_add_column(params)
      [] action.type = "rename_column" -> _generate_rename_column(params)
      [] action.type = "drop_column" -> _generate_drop_column(params)
      [] action.type = "add_relationship" -> _generate_add_foreign_key(params)
      [] action.type = "remove_relationship" -> _generate_drop_foreign_key(params)

\* the loop over request.actions (routes/schema.py 190-202)
RECURSIVE er_loop(_, _, _, _, _, _)
er_loop(actions, i, T, R, ddl_statements, errors) ==
    IF i > Len(actions)
    THEN [tables |-> T, relationships |-> R, ddl_statements |-> ddl_statements,
          errors |-> errors]
    ELSE LET r == _apply_single_action(T, R, actions[i]) IN
         IF r.exc = "none"
         THEN er_loop(actions, i + 1, r.tables, r.relationships,
                      Append(ddl_statements, generate_ddl_from_action(actions[i])), errors)
         ELSE er_loop(actions, i + 1, r.tables, r.relationships, ddl_statements,
                      Append(errors, [action |-> actions[i].type, exc |-> r.exc]))

\* requests of /ddl-edit: the DDL text, as sqlglot parses it
DDLEditRequests ==
    {ParseError, Parsed(<<CreateT>>), Parsed(<<AlterAddColumn>>), Parsed(<<DropT, CreateT>>)}

\* the exception CanonicalSchemaModel.from_ddl(request.ddl) raises, "none" if
\* it returns (schema_model.py 127-131; the model it builds is not used)
from_ddl_raises(parsed) == IF parsed.error THEN SchemaValidationError ELSE "none"

\* a refresh that clears the Schema Cache only after the introspection, so
\* that a failure keeps what was cached
introspection_raised_keeps_cached ==
    { [raised |-> TRUE, cache |-> _schema_cache, tables |-> tables,
       relationships |-> relationships, version |-> cache_version] }

\* refresh_schema(conn) when one of the three introspection queries or
\* from_introspection raises (cache.py 24-30): clear_schema_cache() has run,
\* set_cached_schema has not, the exception leaves refresh_schema
introspection_raised ==
    { [raised |-> TRUE, cache |-> "None", tables |-> <<>>, relationships |-> <<>>,
       version |-> -1] }

\* refresh_schema(conn) without the introspection: clear_schema_cache() only
refresh_schema_keeps_model ==
    { [raised |-> FALSE, cache |-> _schema_cache, tables |-> tables,
       relationships |-> relationships, version |-> cache_version] }

\* refresh_schema(conn): the outcomes of clear_schema_cache(), the three
\* introspection queries, from_introspection and set_cached_schema
refresh_schema ==
    introspection_raised
    \cup { [raised |-> FALSE, cache |-> "model", tables |-> m, relationships |-> <<>>,
            version |-> db_version] : m \in IntrospectedModels }

\* get_or_refresh_schema(conn)
get_or_refresh_schema ==
    IF _schema_cache = "model"
    THEN { [raised |-> FALSE, cache |-> "model", tables |-> tables,
            relationships |-> relationships, version |-> cache_version] }
    ELSE refresh_schema

\* the response of a request that does not go on
Fail(frame, kind, failed) ==
    [frame EXCEPT !.pc = "done", !.kind = kind, !.response = "failure", !.failed = failed]

\* what the Schema Cache holds
Cached == [cache |-> _schema_cache, tables |-> tables, relationships |-> relationships]

\* a variant that sends the statements of the valid actions to the database
\* whatever the errors
after_actions_ignores_errors(frame, r) ==
    [frame EXCEPT !.pc = "execute", !.kind = "er", !.errors = r.errors,
                  !.ddl_statements = r.ddl_statements]

\* if errors: return EREditResponse(success = False, errors = errors); else
\* go on to execute_ddl_statements (routes/schema.py 204-207)
after_actions(frame, r) ==
    IF r.errors # <<>>
    THEN [Fail(frame, "er", "validation") EXCEPT !.errors = r.errors]
    ELSE [frame EXCEPT !.pc = "execute", !.kind = "er", !.ddl_statements = r.ddl_statements]

\* apply_er_edits up to the check of the errors (routes/schema.py 182-205)
ErEditApply ==
    /\ s_frame.pc = "start"
    /\ \E actions \in EREditRequests :
        \E connected \in (IF _session_configs = NoConfig THEN {FALSE} ELSE BOOLEAN) :
            LET frame == [s_frame EXCEPT !.before = Cached] IN
            IF ~connected
            THEN /\ s_frame' = Fail(frame, "er", "connection")
                 /\ UNCHANGED <<tables, relationships, _schema_cache, cache_version>>
            ELSE \E schema_model \in get_or_refresh_schema :
                    IF schema_model.raised
                    THEN /\ s_frame' = Fail(frame, "er", "introspection")
                         /\ tables' = schema_model.tables
                         /\ relationships' = schema_model.relationships
                         /\ _schema_cache' = schema_model.cache
                         /\ cache_version' = schema_model.version
                    ELSE LET r == er_loop(actions, 1, schema_model.tables,
                                          schema_model.relationships, <<>>, <<>>)
                         IN /\ tables' = r.tables
                            /\ relationships' = r.relationships
                            /\ _schema_cache' = schema_model.cache
                            /\ cache_version' = schema_model.version
                            /\ s_frame' = after_actions(frame, r)
    /\ UNCHANGED <<result, v_sql, v_out, _session_configs, e_frame, e_db, db_version>>
    /\ cache_config' = IF _schema_cache = "None" /\ _schema_cache' = "model"
                       THEN _session_configs ELSE cache_config
    /\ UNCHANGED <<c_frame, d_frame, p_frames, peer>>
    /\ UNCHANGED clusterVars

\* apply_ddl_edit up to the connection (routes/schema.py 477-501)
DdlEditValidate ==
    /\ s_frame.pc = "start"
    /\ \E parsed \in DDLEditRequests :
        \E connected \in (IF _session_configs = NoConfig THEN {FALSE} ELSE BOOLEAN) :
            LET frame == [s_frame EXCEPT !.before = Cached] IN
            s_frame' =
                IF from_ddl_raises(parsed) # "none" THEN Fail(frame, "ddl", "parse")
                ELSE IF ~connected THEN Fail(frame, "ddl", "connection")
                ELSE [frame EXCEPT !.pc = "execute", !.kind = "ddl",
                                   !.ddl_statements =
                                       [i \in 1..Len(parsed.statements) |->
                                           parsed.statements[i].sql]]
    /\ UNCHANGED <<tables, relationships, result, v_sql, v_out, _schema_cache,
                   _session_configs, e_frame, e_db, db_version, cache_version>>
    /\ UNCHANGED configVars
    /\ UNCHANGED clusterVars

\* execute_ddl_statements(conn, ddl_statements) / execute_ddl_text(conn, ddl):
\* one transaction; a failure at statement k rolls back and is reported
ExecuteDdl ==
    /\ s_frame.pc = "execute"
    /\ \/ /\ e_db' = [executed |-> [i \in 1..Len(s_frame.ddl_statements) |->
                                       [text |-> s_frame.ddl_statements[i], statement |-> i]],
                      committed |-> TRUE]
          /\ db_version' = db_version + 1
          /\ s_frame' = [s_frame EXCEPT !.pc = "refresh"]
       \/ \E k \in 1..Len(s_frame.ddl_statements) :
          /\ e_db' = [executed |-> [i \in 1..k |->
                                       [text |-> s_frame.ddl_statements[i], statement |-> i]],
                      committed |-> FALSE]
          /\ db_version' = db_version
          /\ s_frame' = Fail(s_frame, s_frame.kind, "execution")
    /\ UNCHANGED <<tables, relationships, result, v_sql, v_out, _schema_cache,
                   _session_configs, e_frame, cache_version>>
    /\ UNCHANGED configVars
    /\ UNCHANGED clusterVars

\* refresh_schema(conn) and the response (routes/schema.py 215-227, 513-525)
RefreshAfterEdit ==
    /\ s_frame.pc = "refresh"
    /\ \E refreshed_schema \in refresh_schema :
        /\ tables' = refreshed_schema.tables
        /\ relationships' = refreshed_schema.relationships
        /\ _schema_cache' = refreshed_schema.cache
        /\ cache_version' = refreshed_schema.version
        /\ s_frame' = IF refreshed_schema.raised
                      THEN [s_frame EXCEPT !.pc = "done", !.response = "error",
                                           !.failed = "introspection"]
                      ELSE [s_frame EXCEPT !.pc = "done", !.response = "success"]
    /\ UNCHANGED <<result, v_sql, v_out, _session_configs, e_frame, e_db, db_version>>
    /\ cache_config' = IF _schema_cache' = "model" THEN _session_configs ELSE cache_config
    /\ UNCHANGED <<c_frame, d_frame, p_frames, peer>>
    /\ UNCHANGED clusterVars

\* the cache before a request: empty, primed by set_cached_schema, or
\* introspected
InitEdit ==
    /\ _schema_cache \in {"None", "model"}
    /\ tables \in (IF _schema_cache = "None" THEN {<<>>} ELSE {<<>>, UsersModel})
    /\ cache_version \in (IF _schema_cache = "None" THEN {-1} ELSE {-1, 0})
    /\ relationships = <<>>
    /\ result = "none"
    /\ v_sql = [error |-> FALSE, statements |-> <<>>]
    /\ v_out = [exc |-> "idle", normalized |-> <<>>, warnings |-> <<>>]
    /\ _session_configs \in {NoConfig, Db1Alice}
    /\ e_frame = NoFrame
    /\ e_db = NoDb
    /\ s_frame = NoEdit
    /\ db_version = 0
    /\ cache_config = _session_configs
    /\ c_frame = NoConfigRequest
    /\ d_frame = NoDdl
    /\ p_frames = NoRequests
    /\ peer = NoPeer
    /\ roles = {}
    /\ databases = {}
    /\ provisioned_dbs = <<>>
    /\ now = 0

NextEdit ==
    \/ ErEditApply
    \/ DdlEditValidate
    \/ ExecuteDdl
    \/ RefreshAfterEdit

SpecEdit == InitEdit /\ [][NextEdit]_vars

EditDone == s_frame.pc = "done"

\* C11: when an er-edit request on a cached model has failed because an
\* action failed validation or because the execution of the DDL failed, the
\* Schema Cache holds a model equal to the one it held before the request.
C11_FailedErEditLeavesCache ==
    (EditDone /\ s_frame.kind = "er" /\ s_frame.failed \in {"validation", "execution"}
              /\ s_frame.before.cache = "model")
        => Cached = s_frame.before

\* C12 as stated: after an er-edit or ddl-edit request whose DDL execution
\* succeeded, the Schema Cache holds a model introspected after that
\* execution.
C12_CacheIntrospectedAfterExecution ==
    (EditDone /\ e_db.committed)
        => (_schema_cache = "model" /\ cache_version = db_version)

\* C12 amended: after such a request the Schema Cache holds a model
\* introspected after the execution, or, when that introspection failed, it
\* is empty; it never holds the model cached or edited in memory before.
C12_CacheIntrospectedOrEmptyAfterExecution ==
    (EditDone /\ e_db.committed)
        => \/ _schema_cache = "model" /\ cache_version = db_version
                /\ s_frame.response = "success"
           \/ _schema_cache = "None" /\ s_frame.failed = "introspection"

\* C12 witness: an er-edit on a cache primed with a model that was not
\* introspected has succeeded.
C12_Witness ==
    /\ EditDone
    /\ s_frame.kind = "er"
    /\ s_frame.response = "success"
    /\ s_frame.before.cache = "model"
    /\ s_frame.ddl_statements # <<>>
    /\ e_db.committed


\* ------------------------------------------------------------------------
\* Connection configuration (routes/config.py), provisioning
\* (routes/db_provision.py, db_provisioner.py) and the TTL sweep
\* (scripts/cleanup_ttl_dbs.py).  The route handlers are coroutines without
\* an await and run one at a time; each is one action.  A request acts on a
\* cluster and a session in one of the states that earlier requests leave.
\* ------------------------------------------------------------------------

\* the most rows the metadata table holds before a request
MaxRows == 3

\* the last day of the clock
MaxClock == 1

\* config.py Settings
provision_max_dbs_per_session == 3

provision_global_max_dbs == 100

\* the values secrets.token_hex(3) draws from
ShortIds == {"a1", "b2", "c3", "d4"}

\* db_provisioner.py 40: db_name = f"schemasense_user_{shortid}"
db_name_of(shortid) == "schemasense_user_" \o shortid

\* db_provisioner.py 41: role_name = f"schemasense_u_{shortid}"
role_name_of(shortid) == "schemasense_u_" \o shortid

\* the characters of the values of token_hex
ShortIdChars ==
    ("a1" :> <<"a","1">>) @@ ("b2" :> <<"b","2">>) @@
    ("c3" :> <<"c","3">>) @@ ("d4" :> <<"d","4">>)

\* the characters of the user names of the model
UserChars ==
    ("alice" :> <<"a","l","i","c","e">>) @@
    ("bob" :> <<"b","o","b">>) @@
    ("a-b" :> <<"a","-","b">>) @@
    [r \in {role_name_of(s) : s \in ShortIds} |->
        <<"s","c","h","e","m","a","s","e","n","s","e","_","u","_">>
        \o ShortIdChars[CHOOSE s \in ShortIds : r = role_name_of(s)]]

Letters == {"a","b","c","d","e","h","i","l","m","n","o","s","u"}

Digits == {"1","2","3","4"}

\* USERNAME_PATTERN = ^[A-Za-z_][A-Za-z0-9_]{0,62}$
USERNAME_PATTERN_match(username) ==
    LET cs == UserChars[username] IN
    /\ Len(cs) >= 1
    /\ Len(cs) <= 63
    /\ cs[1] \in Letters \cup {"_"}
    /\ \A i \in 2..Len(cs) : cs[i] \in Letters \cup Digits \cup {"_"}

\* a variant that lets every user name through
_validate_username_passes(username) == "none"

\* _validate_username(username): the exception it raises
_validate_username(username) ==
    IF ~USERNAME_PATTERN_match(username) THEN "ValueError" ELSE "none"

\* db_config.dbname.startswith("schemasense_user_")
startswith_schemasense_user(dbname) == \E s \in ShortIds : dbname = db_name_of(s)

\* the configurations a user posts to /api/config/db
Db2Alice == DatabaseConfig("db2", "alice", "pw1")

SetDbConfigs == {Db1Alice, Db2Alice}

\* the outcomes psycopg2.connect(build_dsn(config)) can have: a managed
\* database or role that was dropped cannot be connected to
CanConnect(config) ==
    IF config = NoConfig THEN {FALSE}
    ELSE IF startswith_schemasense_user(config.dbname)
            /\ (config.dbname \notin databases \/ config.user \notin roles)
         THEN {FALSE}
         ELSE BOOLEAN

\* the response of a request (no statement on the admin connection)
Response(op, response) ==
    [op |-> op, response |-> response, statements |-> <<>>, error |-> <<>>,
     cleaned_count |-> 0, session_id |-> "", infra_error |-> FALSE, dry_run |-> FALSE, ttl_days |-> 0, user |-> ""]

\* clear_schema_cache()
clear_schema_cache ==
    /\ _schema_cache' = "None"
    /\ tables' = <<>>
    /\ relationships' = <<>>
    /\ cache_version' = -1
    /\ cache_config' = NoConfig

\* the Schema Cache is not touched
cacheVars == <<_schema_cache, tables, relationships, cache_version, cache_config>>

\* the variables of the other endpoints
otherVars == <<result, v_sql, v_out, e_frame, e_db, s_frame, db_version, d_frame, p_frames, peer>>

\* UPDATE provisioned_dbs SET last_used_at = CURRENT_TIMESTAMP
\* WHERE db_name = %s AND status = 'active'
touch_rows(rows, db_name) ==
    [i \in 1..Len(rows) |->
        IF rows[i].db_name = db_name /\ rows[i].status = "active"
        THEN [rows[i] EXCEPT !.last_used_at = now]
        ELSE rows[i]]

\* update_db_activity(db_name): the rows afterwards; a failure of the
\* connection or of the UPDATE is logged and swallowed
update_db_activity(db_name) == {provisioned_dbs, touch_rows(provisioned_dbs, db_name)}

\* POST /api/config/db
SetDb ==
    /\ \E config \in SetDbConfigs, connects \in BOOLEAN :
        LET old_config == _session_configs IN
        IF connects
        THEN /\ _session_configs' = config
             /\ clear_schema_cache
             /\ c_frame' = Response("set_db", "success")
        ELSE /\ _session_configs' = IF old_config # NoConfig THEN old_config ELSE config
             /\ UNCHANGED cacheVars
             /\ c_frame' = Response("set_db", "failure")
    /\ UNCHANGED clusterVars
    /\ UNCHANGED otherVars

\* DELETE /api/config/db
DisconnectDb ==
    /\ _session_configs' = NoConfig
    /\ clear_schema_cache
    /\ c_frame' = Response("disconnect_db", "success")
    /\ UNCHANGED clusterVars
    /\ UNCHANGED otherVars

\* the users and passwords a PATCH /api/config/db carries: the ones of the
\* session's configuration or other ones
PatchUsers(old_config) == {old_config.user, "bob", "a-b"}

PatchPasswords(old_config) == {old_config.password, "pw2"}

\* a statement on a connection and how it ended
Stmt(sql, name, ok) == <<sql, name, IF ok THEN "ok" ELSE "error">>

\* the step of update_db_credentials that fails, if one does
PatchFailures ==
    {"none", "connect", "alter_user", "create_user", "grant", "test_connect",
     "admin_connect", "terminate", "reassign", "drop_owned", "drop_user"}

\* the block of statements 214-250, which has an except of its own
admin_steps(old_config, config) ==
    << <<"psycopg2.connect(user_db_dsn)", config.dbname, "admin_connect", "admin">>,
       <<"SELECT pg_terminate_backend", old_config.user, "terminate", "admin">>,
       <<"REASSIGN OWNED BY", old_config.user, "reassign", "admin">>,
       <<"DROP OWNED BY", old_config.user, "drop_owned", "admin">>,
       <<"DROP USER", old_config.user, "drop_user", "admin">> >>

\* the statements of that block
AdminSql ==
    {"psycopg2.connect(user_db_dsn)", "SELECT pg_terminate_backend",
     "REASSIGN OWNED BY", "DROP OWNED BY", "DROP USER"}

\* the statements 155-199 on the connection of the old identity
change_steps(old_config, config) ==
    LET username_changed == old_config.user # config.user
        password_changed == old_config.password # config.password
    IN  << <<"get_connection", old_config.user, "connect", "try">> >>
        \o (IF password_changed /\ ~username_changed
            THEN << <<"ALTER USER", config.user, "alter_user", "try">> >> ELSE <<>>)
        \o (IF username_changed
            THEN << <<"CREATE USER", config.user, "create_user", "try">>,
                    <<"GRANT ALL PRIVILEGES", config.user, "grant", "try">> >>
            ELSE <<>>)

\* a variant that drops the old role before it has connected as the new one
credential_steps_drop_first(old_config, config) ==
    change_steps(old_config, config)
    \o (IF old_config.user # config.user THEN admin_steps(old_config, config) ELSE <<>>)
    \o << <<"set_database_config", config.user, "set", "try">>,
          <<"get_connection", config.user, "test_connect", "try">> >>

\* the steps of the try block of update_db_credentials (155-263) in their
\* order: sql, its argument, the name of the step, the try block it is in
credential_steps(old_config, config) ==
    change_steps(old_config, config)
    \o << <<"set_database_config", config.user, "set", "try">>,
          <<"get_connection", config.user, "test_connect", "try">> >>
    \o (IF old_config.user # config.user THEN admin_steps(old_config, config) ELSE <<>>)
    \o << <<"clear_schema_cache", "", "clear", "try">> >>

\* the steps from the k-th on as they run when the steps of bad raise: an
\* exception in the admin block skips the rest of that block (253-258), any
\* other one leaves the try block
RECURSIVE run_steps(_, _, _, _)
run_steps(steps, k, bad, admin_raised) ==
    IF k > Len(steps) THEN <<>>
    ELSE LET st == steps[k]
             admin == st[4] = "admin"
         IN  IF admin /\ admin_raised THEN run_steps(steps, k + 1, bad, TRUE)
             ELSE IF st[3] \in bad
                  THEN << Stmt(st[1], st[2], FALSE) >>
                       \o (IF admin THEN run_steps(steps, k + 1, bad, TRUE) ELSE <<>>)
                  ELSE << Stmt(st[1], st[2], TRUE) >>
                       \o run_steps(steps, k + 1, bad, admin_raised)

\* the statements of a kind that completed, by their argument
Completed(statements, sql) ==
    { statements[i][2] : i \in { j \in 1..Len(statements) :
                                   statements[j][1] = sql /\ statements[j][3] = "ok" } }

\* a variant whose except block does not put the old configuration back
effective_config_not_restored(old_config, config, statements, raised) ==
    IF config.user \in Completed(statements, "set_database_config") THEN config
    ELSE old_config

\* the configuration of the session after update_db_credentials: the one
\* of line 204 or, after an exception, the one of line 273
effective_config(old_config, config, statements, raised) ==
    IF raised THEN old_config
    ELSE IF config.user \in Completed(statements, "set_database_config") THEN config
    ELSE old_config

\* update_db_credentials: the steps it takes, the configuration and the
\* roles afterwards (the roles only when the database is one of the managed
\* cluster), and whether the handler got to its end
update_db_credentials(old_config, config, fails) ==
    LET username_changed == old_config.user # config.user
        managed == startswith_schemasense_user(config.dbname)
        bad == {fails}
               \cup (IF CanConnect(old_config) = {FALSE} THEN {"connect"} ELSE {})
               \cup (IF managed /\ config.user \in roles THEN {"create_user"} ELSE {})
        invalid == _validate_username(config.user) # "none"
        ran == IF invalid THEN <<>>
               ELSE run_steps(credential_steps(old_config, config), 1, bad, FALSE)
        raised == invalid \/ \E i \in 1..Len(ran) :
                                 ran[i][3] = "error" /\ ran[i][1] \notin AdminSql
        restore == IF raised THEN << Stmt("set_database_config", old_config.user, TRUE) >>
                   ELSE <<>>
        committed == config.user \in Completed(ran, "GRANT ALL PRIVILEGES")
        created == IF committed /\ managed THEN roles \cup {config.user} ELSE roles
    IN  [success |-> ~raised,
         statements |-> ran \o restore,
         config |-> effective_config(old_config, config, ran, raised),
         roles |-> IF managed THEN created \ Completed(ran, "DROP USER") ELSE created]

\* PATCH /api/config/db
UpdateDbCredentials ==
    /\ IF _session_configs = NoConfig
       THEN /\ c_frame' = Response("update_db_credentials", "no_connection")
            /\ UNCHANGED <<_session_configs, roles>>
            /\ UNCHANGED cacheVars
       ELSE \E r \in { update_db_credentials(_session_configs,
                          DatabaseConfig(_session_configs.dbname, user, password), fails)
                          @@ [user |-> user] :
                          user \in PatchUsers(_session_configs),
                          password \in PatchPasswords(_session_configs),
                          fails \in PatchFailures } :
            /\ _session_configs' = r.config
            /\ roles' = r.roles
            /\ IF "" \in Completed(r.statements, "clear_schema_cache")
               THEN clear_schema_cache
               ELSE UNCHANGED cacheVars
            /\ c_frame' = [Response("update_db_credentials",
                                    IF r.success THEN "success" ELSE "failure")
                             EXCEPT !.statements = r.statements, !.user = r.user]
    /\ UNCHANGED <<databases, provisioned_dbs, now>>
    /\ UNCHANGED otherVars

\* GET /api/schema: the cached model, or an introspected one
GetSchema ==
    /\ \E connected \in CanConnect(_session_configs) :
        IF ~connected
        THEN /\ c_frame' = Response("get_schema", "503")
             /\ UNCHANGED cacheVars
             /\ UNCHANGED provisioned_dbs
        ELSE \E schema_model \in get_or_refresh_schema :
            /\ tables' = schema_model.tables
            /\ relationships' = schema_model.relationships
            /\ _schema_cache' = schema_model.cache
            /\ cache_version' = schema_model.version
            /\ cache_config' = IF _schema_cache = "model" THEN cache_config
                               ELSE IF schema_model.raised THEN NoConfig
                               ELSE _session_configs
            /\ IF schema_model.raised
               THEN /\ c_frame' = Response("get_schema", "500")
                    /\ UNCHANGED provisioned_dbs
               ELSE /\ c_frame' = Response("get_schema", "ok")
                    /\ IF startswith_schemasense_user(_session_configs.dbname)
                       THEN provisioned_dbs' \in update_db_activity(_session_configs.dbname)
                       ELSE UNCHANGED provisioned_dbs
    /\ UNCHANGED <<_session_configs, roles, databases, now>>
    /\ UNCHANGED otherVars

\* the session whose configuration and cache the model holds, and the
\* sessions that send requests
SessionId == "s1"

Sessions == {"s1", "s2"}

\* config.py Settings.enable_sample_data
enable_sample_data == TRUE

\* the steps of _provision_managed_database that can raise
ProvisionFailures ==
    {"none", "connect", "create_role", "alter_role_statement_timeout",
     "alter_role_idle_in_transaction_session_timeout", "create_database", "insert",
     "sample_data", "sample_data_update"}

\* the statement of the compensating cleanup that can raise
CleanupFailures == {"none", "drop_database", "drop_role"}

\* INSERT INTO provisioned_dbs (session_id, db_name, db_role, mode, status);
\* id is the serial key, last_used_at defaults to CURRENT_TIMESTAMP
insert_row(rows, session_id, db_name, role_name) ==
    Append(rows, [id |-> Len(rows) + 1, session_id |-> session_id, db_name |-> db_name,
                  db_role |-> role_name, status |-> "active", last_used_at |-> now])

\* UPDATE provisioned_dbs SET status = %s WHERE db_name = %s
set_status_by_db_name(rows, status, db_name) ==
    [i \in 1..Len(rows) |->
        IF rows[i].db_name = db_name THEN [rows[i] EXCEPT !.status = status] ELSE rows[i]]

\* the step of the try block (db_provisioner.py 53-125) that raises: the one
\* told to fail, or before it CREATE ROLE / CREATE DATABASE of a name that
\* exists
step_raised(shortid, load_sample, fails) ==
    IF fails = "connect" THEN "connect"
    ELSE IF fails = "create_role" \/ role_name_of(shortid) \in roles THEN "create_role"
    ELSE IF fails \in {"alter_role_statement_timeout",
                       "alter_role_idle_in_transaction_session_timeout"} THEN fails
    ELSE IF fails = "create_database" \/ db_name_of(shortid) \in databases
         THEN "create_database"
    ELSE IF fails = "insert" THEN "insert"
    ELSE IF load_sample /\ enable_sample_data /\ fails \in {"sample_data", "sample_data_update"}
         THEN fails
    ELSE "none"

\* the statements of the try block up to the one that raised
try_statements(shortid, raised_at) ==
    LET role_name == role_name_of(shortid)
        db_name == db_name_of(shortid)
        all == << <<"CREATE ROLE", role_name, "create_role">>,
                  <<"ALTER ROLE SET statement_timeout", role_name,
                    "alter_role_statement_timeout">>,
                  <<"ALTER ROLE SET idle_in_transaction_session_timeout", role_name,
                    "alter_role_idle_in_transaction_session_timeout">>,
                  <<"CREATE DATABASE", db_name, "create_database">>,
                  <<"INSERT INTO provisioned_dbs", db_name, "insert">> >>
        last == IF raised_at = "connect" THEN 0
                ELSE IF \E i \in 1..5 : all[i][3] = raised_at
                     THEN CHOOSE i \in 1..5 : all[i][3] = raised_at
                     ELSE 5
        update == IF raised_at \in {"sample_data", "sample_data_update"}
                  THEN << Stmt("UPDATE provisioned_dbs SET status = error", db_name,
                               raised_at = "sample_data") >>
                  ELSE <<>>
    IN  [i \in 1..last |-> Stmt(all[i][1], all[i][2], all[i][3] # raised_at)] \o update

\* a variant that drops the database and the role whatever was created
cleanup_statements_unconditional(shortid, db_created, role_created, cleanup_fails) ==
    LET drop_db == << Stmt("DROP DATABASE IF EXISTS", db_name_of(shortid),
                           cleanup_fails # "drop_database") >>
        drop_role == IF cleanup_fails # "drop_database"
                     THEN << Stmt("DROP ROLE IF EXISTS", role_name_of(shortid),
                                  cleanup_fails # "drop_role") >>
                     ELSE <<>>
    IN  drop_db \o drop_role

\* the compensating cleanup (db_provisioner.py 133-147): its statements
cleanup_statements(shortid, db_created, role_created, cleanup_fails) ==
    LET drop_db == IF db_created
                   THEN << Stmt("DROP DATABASE IF EXISTS", db_name_of(shortid),
                                cleanup_fails # "drop_database") >>
                   ELSE <<>>
        drop_role == IF role_created /\ ~(db_created /\ cleanup_fails = "drop_database")
                     THEN << Stmt("DROP ROLE IF EXISTS", role_name_of(shortid),
                                  cleanup_fails # "drop_role") >>
                     ELSE <<>>
    IN  drop_db \o drop_role

\* the names a sequence of statements has dropped
Dropped(statements, sql) ==
    { statements[i][2] : i \in { j \in 1..Len(statements) :
                                   statements[j][1] = sql /\ statements[j][3] = "ok" } }

\* a variant in which a failure of the cleanup replaces the failure cleaned up
provision_exception_of_cleanup(raised_at, cleanup) ==
    IF \E i \in 1..Len(cleanup) : cleanup[i][3] = "error"
    THEN <<"Failed to provision managed database", "cleanup">>
    ELSE <<"Failed to provision managed database">>
         \o (IF raised_at = "sample_data"
             THEN <<"Database created but sample data loading failed">> ELSE <<>>)
         \o <<raised_at>>

\* the exception of db_provisioner.py 149 (and 123 inside it): its message
\* carries str(e) of the step that raised
provision_exception(raised_at, cleanup) ==
    <<"Failed to provision managed database">>
    \o (IF raised_at = "sample_data"
        THEN <<"Database created but sample data loading failed">> ELSE <<>>)
    \o <<raised_at>>

\* _provision_managed_database(session_id, load_sample) with the shortid
\* drawn and the steps that fail: the exception it raises, the statements on
\* the admin connection, and the cluster and the rows afterwards
_provision_managed_database(session_id, load_sample, shortid, fails, cleanup_fails) ==
    LET db_name == db_name_of(shortid)
        role_name == role_name_of(shortid)
        raised_at == step_raised(shortid, load_sample, fails)
        role_created == raised_at \notin {"connect", "create_role"}
        db_created == role_created
                      /\ raised_at \notin {"alter_role_statement_timeout",
                                           "alter_role_idle_in_transaction_session_timeout",
                                           "create_database"}
        metadata_recorded == db_created /\ raised_at # "insert"
        inserted == IF metadata_recorded
                    THEN insert_row(provisioned_dbs, session_id, db_name, role_name)
                    ELSE provisioned_dbs
        cleanup == IF raised_at \in {"none", "connect"} THEN <<>>
                   ELSE cleanup_statements(shortid, db_created, role_created, cleanup_fails)
    IN  [raised |-> raised_at # "none",
         error |-> IF raised_at = "none" THEN <<>> ELSE provision_exception(raised_at, cleanup),
         statements |-> try_statements(shortid, raised_at) \o cleanup,
         roles |-> (IF role_created THEN roles \cup {role_name} ELSE roles)
                       \ Dropped(cleanup, "DROP ROLE IF EXISTS"),
         databases |-> (IF db_created THEN databases \cup {db_name} ELSE databases)
                           \ Dropped(cleanup, "DROP DATABASE IF EXISTS"),
         provisioned_dbs |-> IF raised_at = "sample_data"
                             THEN set_status_by_db_name(inserted, "error", db_name)
                             ELSE inserted,
         db_config |-> DatabaseConfig(db_name, role_name, "generated")]

\* the number of active rows, of a session or of all
active_count(rows, sessions) ==
    Cardinality({ i \in 1..Len(rows) :
                    rows[i].status = "active" /\ rows[i].session_id \in sessions })

\* a variant that counts the rows of no session
_check_quotas_counts_none(session_id) == "ok"

\* _check_quotas, the counts (routes/db_provision.py 74-94): "ok" for
\* (True, None), else the quota exceeded
_check_quotas_counts(session_id) ==
    IF active_count(provisioned_dbs, {session_id}) >= provision_max_dbs_per_session
    THEN "Session quota exceeded"
    ELSE IF Cardinality({ i \in 1..Len(provisioned_dbs) :
                            provisioned_dbs[i].status = "active" })
               >= provision_global_max_dbs
         THEN "Global quota exceeded"
    ELSE "ok"

\* a variant that rejects the request when the check cannot be completed
_check_quotas_closed(session_id, infra_error) ==
    IF infra_error THEN "Quota check failed" ELSE _check_quotas_counts(session_id)

\* _check_quotas(session_id); infra_error: psycopg2.connect or a count query
\* raises, and the except clause returns (True, None)
_check_quotas(session_id, infra_error) ==
    IF infra_error THEN "ok" ELSE _check_quotas_counts(session_id)

\* the modes a request carries (None becomes provision_mode_default)
Modes == {"managed", "ephemeral"}

\* the names that CREATE ROLE or CREATE DATABASE would find taken, or that a
\* row carries
Drawn ==
    { s \in ShortIds : \/ role_name_of(s) \in roles
                       \/ db_name_of(s) \in databases
                       \/ \E i \in 1..Len(provisioned_dbs) :
                             provisioned_dbs[i].db_name = db_name_of(s) }

\* the order in which new values are taken
TokenOrder == <<"a1", "b2", "c3", "d4">>

\* secrets.token_hex(3): a value drawn before or a new one; the new values
\* differ in nothing but their name and are taken in one order
token_hex ==
    Drawn \cup { TokenOrder[i] : i \in { j \in 1..Len(TokenOrder) :
                     /\ TokenOrder[j] \notin Drawn
                     /\ \A k \in 1..(j - 1) : TokenOrder[k] \in Drawn } }

\* a request of provision_db and what its environment does
\* (a field that the request does not get to read has one value)
ProvisionInputs ==
    { in \in [session_id : Sessions, mode : Modes, load_sample : BOOLEAN,
              shortid : token_hex, infra_error : BOOLEAN, fails : ProvisionFailures,
              cleanup_fails : CleanupFailures, verified : BOOLEAN] :
        /\ in.mode = "ephemeral" => (~in.load_sample /\ in.fails = "none" /\ in.verified)
        /\ in.fails \in {"none", "connect"} => in.cleanup_fails = "none"
        /\ in.fails # "none" => in.verified
        /\ in.fails \in {"sample_data", "sample_data_update"} => in.load_sample }

\* provision_db: the response and the state afterwards
provision_db(in) ==
    LET unchanged == [roles |-> roles, databases |-> databases,
                      provisioned_dbs |-> provisioned_dbs, config |-> _session_configs,
                      statements |-> <<>>, error |-> <<>>, session_id |-> in.session_id,
                      infra_error |-> in.infra_error, dry_run |-> FALSE, ttl_days |-> 0, user |-> ""]
        quota == _check_quotas(in.session_id, in.infra_error)
    IN  IF quota # "ok"
        THEN [unchanged EXCEPT !.error = <<quota>>] @@ [response |-> "429"]
        ELSE IF in.mode = "ephemeral"
        THEN [unchanged EXCEPT !.error = <<"NotImplementedError">>] @@ [response |-> "400"]
        ELSE LET p == _provision_managed_database(in.session_id, in.load_sample, in.shortid,
                                                  in.fails, in.cleanup_fails)
                 done == [roles |-> p.roles, databases |-> p.databases,
                          provisioned_dbs |-> p.provisioned_dbs, statements |-> p.statements,
                          session_id |-> in.session_id, infra_error |-> in.infra_error, dry_run |-> FALSE, ttl_days |-> 0, user |-> ""]
             IN  IF p.raised
                 THEN done @@ [config |-> _session_configs, error |-> p.error,
                               response |-> "500"]
                 ELSE IF ~in.verified
                 THEN done @@ [config |-> _session_configs,
                               error |-> <<"connectivity verification failed">>,
                               response |-> "500"]
                 ELSE done @@ [config |-> IF in.session_id = SessionId THEN p.db_config
                                          ELSE _session_configs,
                               error |-> <<>>, response |-> "200"]

\* POST /api/db/provision
ProvisionDb ==
    /\ \E r \in { provision_db(in) : in \in ProvisionInputs } :
        /\ roles' = r.roles
        /\ databases' = r.databases
        /\ provisioned_dbs' = r.provisioned_dbs
        /\ _session_configs' = r.config
        /\ c_frame' = [op |-> "provision_db", response |-> r.response,
                       statements |-> r.statements, error |-> r.error,
                       cleaned_count |-> 0, session_id |-> r.session_id,
                       infra_error |-> r.infra_error, dry_run |-> FALSE, ttl_days |-> 0, user |-> ""]
    /\ UNCHANGED now
    /\ UNCHANGED cacheVars
    /\ UNCHANGED otherVars

\* the statement of a deprovision that fails, if one does
DeprovisionFailures == {"none", "connect", "terminate", "drop_database", "drop_role", "update"}

\* a variant that goes on to the next statement when one fails
deprovision_statements_goes_on(row, fails) ==
    << Stmt("SELECT pg_terminate_backend", row.db_name, fails # "terminate"),
       Stmt("DROP DATABASE IF EXISTS", row.db_name, fails # "drop_database"),
       Stmt("DROP ROLE IF EXISTS", row.db_role, fails # "drop_role"),
       Stmt("UPDATE provisioned_dbs SET status = deleted", row.id, fails # "update") >>

\* deprovision_db, routes/db_provision.py 293-313: the statements on the
\* admin connection up to the one that raises
deprovision_statements(row, fails) ==
    LET all == << <<"SELECT pg_terminate_backend", row.db_name, "terminate">>,
                  <<"DROP DATABASE IF EXISTS", row.db_name, "drop_database">>,
                  <<"DROP ROLE IF EXISTS", row.db_role, "drop_role">>,
                  <<"UPDATE provisioned_dbs SET status = deleted", row.id, "update">> >>
        last == IF \E i \in 1..4 : all[i][3] = fails
                THEN CHOOSE i \in 1..4 : all[i][3] = fails
                ELSE 4
    IN  [i \in 1..last |-> Stmt(all[i][1], all[i][2], all[i][3] # fails)]

\* the ids of the rows a sequence of statements has marked deleted
Marked(statements) ==
    { statements[i][2] : i \in { j \in 1..Len(statements) :
          statements[j][1] = "UPDATE provisioned_dbs SET status = deleted"
          /\ statements[j][3] = "ok" } }

\* a variant whose UPDATE removes the row
mark_deleted_removes(rows, ids) ==
    SelectSeq(rows, LAMBDA row : row.id \notin ids)

\* the rows after the UPDATEs ... SET status = 'deleted' WHERE id = %s
mark_deleted(rows, ids) ==
    [i \in 1..Len(rows) |->
        IF rows[i].id \in ids THEN [rows[i] EXCEPT !.status = "deleted"] ELSE rows[i]]

\* the cluster and the rows after a sequence of statements of a deprovision
After(statements, response, cleaned_count) ==
    [roles |-> roles \ Dropped(statements, "DROP ROLE IF EXISTS"),
     databases |-> databases \ Dropped(statements, "DROP DATABASE IF EXISTS"),
     provisioned_dbs |-> mark_deleted(provisioned_dbs, Marked(statements)),
     statements |-> statements, response |-> response, cleaned_count |-> cleaned_count]

\* a request of deprovision_db and what its environment does
DeprovisionInputs ==
    [by : {"db_name"}, db_name : {db_name_of(s) : s \in ShortIds}, id : {0},
     fails : DeprovisionFailures]
    \cup [by : {"id"}, db_name : {""}, id : 1..MaxRows, fails : DeprovisionFailures]
    \cup [by : {"neither"}, db_name : {""}, id : {0}, fails : {"none"}]

\* deprovision_db: the responses it can give and the state after each
\* (fetchone() gives any of the rows of the name)
deprovision_db(in) ==
    LET found == { i \in 1..Len(provisioned_dbs) :
                     IF in.by = "db_name" THEN provisioned_dbs[i].db_name = in.db_name
                     ELSE provisioned_dbs[i].id = in.id }
    IN  IF in.by = "neither" THEN { After(<<>>, "400", 0) }
        ELSE IF in.fails = "connect" THEN { After(<<>>, "500", 0) }
        ELSE IF found = {} THEN { After(<<>>, "404", 0) }
        ELSE { IF provisioned_dbs[i].status = "deleted"
               THEN After(<<>>, "already deleted", 0)
               ELSE After(deprovision_statements(provisioned_dbs[i], in.fails),
                          IF in.fails = "none" THEN "200" ELSE "500", 0) : i \in found }

\* POST /api/db/deprovision
DeprovisionDb ==
    /\ \E r \in UNION { deprovision_db(in) : in \in DeprovisionInputs } :
        /\ roles' = r.roles
        /\ databases' = r.databases
        /\ provisioned_dbs' = r.provisioned_dbs
        /\ c_frame' = [op |-> "deprovision_db", response |-> r.response,
                       statements |-> r.statements, error |-> <<>>, cleaned_count |-> 0,
                       session_id |-> "admin", infra_error |-> FALSE, dry_run |-> FALSE, ttl_days |-> 0, user |-> ""]
    /\ UNCHANGED <<_session_configs, now>>
    /\ UNCHANGED cacheVars
    /\ UNCHANGED otherVars

\* the TTLs the sweep is run with
TtlDays == {0, 1}

\* the statement of the sweep of one row that fails, if one does
SweepFailures == {"none", "terminate", "drop_database", "drop_role", "update"}

\* SELECT ... WHERE status = 'active' AND last_used_at < %s ORDER BY
\* last_used_at ASC: the ids (rows of one day in id order)
stale_dbs(ttl_days) ==
    LET ids == { i \in 1..Len(provisioned_dbs) :
                   provisioned_dbs[i].status = "active"
                   /\ provisioned_dbs[i].last_used_at < now - ttl_days }
        before(i, j) ==
            \/ provisioned_dbs[i].last_used_at < provisioned_dbs[j].last_used_at
            \/ provisioned_dbs[i].last_used_at = provisioned_dbs[j].last_used_at /\ i < j
    IN  CHOOSE order \in [1..Cardinality(ids) -> ids] :
            \A a, b \in 1..Cardinality(ids) : a < b => before(order[a], order[b])

\* cleanup_stale_databases 73-95: the statements for one stale row up to the
\* one that raises
sweep_statements(row, fails) ==
    LET all == << <<"SELECT pg_terminate_backend", row.db_name, "terminate">>,
                  <<"DROP DATABASE IF EXISTS", row.db_name, "drop_database">>,
                  <<"DROP ROLE IF EXISTS", row.db_role, "drop_role">>,
                  <<"UPDATE provisioned_dbs SET status = deleted", row.id, "update">> >>
        last == IF \E i \in 1..4 : all[i][3] = fails
                THEN CHOOSE i \in 1..4 : all[i][3] = fails
                ELSE 4
    IN  [i \in 1..last |-> Stmt(all[i][1], all[i][2], all[i][3] # fails)]

\* a variant of the loop that ends at the first row whose cleanup raises
RECURSIVE sweep_loop_stops(_, _, _)
sweep_loop_stops(stale, k, fails) ==
    IF k > Len(stale) THEN <<>>
    ELSE sweep_statements(provisioned_dbs[stale[k]], fails[stale[k]])
         \o (IF fails[stale[k]] # "none" THEN <<>> ELSE sweep_loop_stops(stale, k + 1, fails))

\* the loop of cleanup_stale_databases (55-117) from the k-th stale row on
RECURSIVE sweep_loop(_, _, _)
sweep_loop(stale, k, fails) ==
    IF k > Len(stale) THEN <<>>
    ELSE sweep_statements(provisioned_dbs[stale[k]], fails[stale[k]])
         \o sweep_loop(stale, k + 1, fails)

\* cleanup_stale_databases(dry_run, ttl_days)
cleanup_stale_databases(dry_run, ttl_days, connects, fails) ==
    LET stale == stale_dbs(ttl_days) IN
    IF ~connects THEN After(<<>>, "raised", 0)
    ELSE IF stale = <<>> THEN After(<<>>, "returned", 0)
    ELSE IF dry_run THEN After(<<>>, "returned", Len(stale))
    ELSE After(sweep_loop(stale, 1, fails), "returned",
               Cardinality({ k \in 1..Len(stale) : fails[stale[k]] = "none" }))

\* scripts/cleanup_ttl_dbs.py
CleanupStaleDatabases ==
    /\ \E r \in UNION { { cleanup_stale_databases(dry_run, ttl_days, connects, fails)
                             @@ [dry_run |-> dry_run, ttl_days |-> ttl_days, user |-> ""] :
                           dry_run \in BOOLEAN, connects \in BOOLEAN,
                           fails \in [ { stale_dbs(ttl_days)[k] :
                                           k \in 1..Len(stale_dbs(ttl_days)) }
                                       -> SweepFailures] } : ttl_days \in TtlDays } :
        /\ roles' = r.roles
        /\ databases' = r.databases
        /\ provisioned_dbs' = r.provisioned_dbs
        /\ c_frame' = [op |-> "cleanup_stale_databases", response |-> r.response,
                       statements |-> r.statements, error |-> <<>>,
                       cleaned_count |-> r.cleaned_count, session_id |-> "",
                       infra_error |-> FALSE, dry_run |-> r.dry_run,
                       ttl_days |-> r.ttl_days, user |-> ""]
    /\ UNCHANGED <<_session_configs, now>>
    /\ UNCHANGED cacheVars
    /\ UNCHANGED otherVars

\* the states a row and its database are left in: provisioned; sample data
\* failed and the cleanup dropped or failed to drop; deprovisioned
RowStates ==
    [status : {"active"}, kept : {TRUE}] \cup [status : {"error"}, kept : BOOLEAN]
    \cup [status : {"deleted"}, kept : {FALSE}]

\* the row of the i-th provisioning
InitRow(i, state, last_used_at) ==
    [id |-> i, session_id |-> SessionId, db_name |-> db_name_of(TokenOrder[i]),
     db_role |-> role_name_of(TokenOrder[i]), status |-> state.status,
     last_used_at |-> last_used_at]

\* a cluster after some provisionings, pings, deprovisions and days
InitCluster(max_rows) ==
    /\ now \in 0..MaxClock
    /\ \E n \in 0..max_rows :
        \E state \in [1..n -> RowStates], last_used_at \in [1..n -> {0, now}] :
            /\ \A i \in 1..n : state[i].status # "active" => last_used_at[i] = 0
            /\ provisioned_dbs = [i \in 1..n |-> InitRow(i, state[i], last_used_at[i])]
            /\ roles = { role_name_of(TokenOrder[i]) : i \in { j \in 1..n : state[j].kept } }
            /\ databases = { db_name_of(TokenOrder[i]) : i \in { j \in 1..n : state[j].kept } }

\* the configuration of a session: none, a database of the user's own, or
\* the managed database of the first row
InitSession(own) ==
    _session_configs \in
        {NoConfig} \cup own
        \cup { DatabaseConfig(provisioned_dbs[i].db_name, provisioned_dbs[i].db_role, "generated") :
                 i \in { j \in 1..Len(provisioned_dbs) : j = 1 /\ provisioned_dbs[j].status = "active" } }

\* the Schema Cache of a session: empty, or a model introspected through
\* the session's configuration
InitCache ==
    /\ _schema_cache \in (IF _session_configs = NoConfig THEN {"None"} ELSE {"None", "model"})
    /\ tables \in (IF _schema_cache = "None" THEN {<<>>} ELSE IntrospectedModels)
    /\ relationships = <<>>
    /\ cache_version = IF _schema_cache = "None" THEN -1 ELSE 0
    /\ cache_config = IF _schema_cache = "None" THEN NoConfig ELSE _session_configs

\* the endpoints of the other sections are idle
InitOthers ==
    /\ result = "none"
    /\ v_sql = [error |-> FALSE, statements |-> <<>>]
    /\ v_out = [exc |-> "idle", normalized |-> <<>>, warnings |-> <<>>]
    /\ e_frame = NoFrame
    /\ e_db = NoDb
    /\ s_frame = NoEdit
    /\ db_version = 0
    /\ c_frame = NoConfigRequest
    /\ d_frame = NoDdl
    /\ p_frames = NoRequests
    /\ peer = NoPeer

\* a session and a cluster with at most one managed database
InitConfig ==
    /\ InitCluster(1)
    /\ InitSession({Db1Alice})
    /\ InitCache
    /\ InitOthers

\* a request that changes the connection of the session, then reads of the
\* schema
NextConfig ==
    \/ c_frame.op = "" /\ SetDb
    \/ c_frame.op = "" /\ DisconnectDb
    \/ c_frame.op = "" /\ UpdateDbCredentials
    \/ c_frame.op = "" /\ ProvisionDb
    \/ c_frame.op # "get_schema" /\ GetSchema

SpecConfig == InitConfig /\ [][NextConfig]_vars

\* a session and a cluster of up to MaxRows managed databases
InitProvision ==
    /\ InitCluster(MaxRows)
    /\ InitSession({})
    /\ InitCache
    /\ InitOthers

\* one request on the managed cluster
NextProvision ==
    \/ c_frame.op = "" /\ ProvisionDb
    \/ c_frame.op = "" /\ GetSchema
    \/ c_frame.op = "" /\ DeprovisionDb
    \/ c_frame.op = "" /\ CleanupStaleDatabases

SpecProvision == InitProvision /\ [][NextProvision]_vars

\* C13: a read of the schema never returns a model that was introspected
\* through another connection configuration than the session's current one,
\* whichever request changed the configuration (set_db, disconnect, a
\* credential update, or the switch to a newly provisioned database).
C13_ReadReturnsModelOfCurrentConnection ==
    (c_frame.op = "get_schema" /\ c_frame.response = "ok")
        => cache_config = _session_configs

\* the request that the last step answered
Provisioned == c_frame.op = "provision_db"

\* C14: when a session has provision_max_dbs_per_session (3) active rows and
\* the quota check of its provisioning request completes, the request is
\* rejected with the quota error (HTTP 429), no statement (CREATE ROLE,
\* CREATE DATABASE, INSERT) is sent on the admin connection, and the roles,
\* the databases and the rows are as before.
C14_FourthRequestRejected ==
    [][ (c_frame'.op = "provision_db" /\ ~c_frame'.infra_error
         /\ active_count(provisioned_dbs, {c_frame'.session_id})
                >= provision_max_dbs_per_session)
        => /\ c_frame'.response = "429"
           /\ c_frame'.error = <<"Session quota exceeded">>
           /\ c_frame'.statements = <<>>
           /\ UNCHANGED <<roles, databases, provisioned_dbs, _session_configs>> ]_vars

\* C14 witness: a request of the session with three active rows was
\* rejected.
C14_Witness ==
    /\ Provisioned
    /\ c_frame.response = "429"
    /\ ~c_frame.infra_error
    /\ active_count(provisioned_dbs, {c_frame.session_id}) = provision_max_dbs_per_session

\* the positions of the statements of a kind in a sequence of statements
Positions(statements, sql) == { i \in 1..Len(statements) : statements[i][1] = sql }

\* the step whose failure the exception of a provisioning carries
Carried(frame) == frame.error[Len(frame.error)]

\* the steps of role creation, role timeout configuration, database creation
\* and metadata insertion
CreationSteps ==
    {"create_role", "alter_role_statement_timeout",
     "alter_role_idle_in_transaction_session_timeout", "create_database", "insert"}

\* the names that the statements of a kind have created
Created(statements, sql) ==
    { statements[i][2] : i \in { j \in Positions(statements, sql) : statements[j][3] = "ok" } }

\* C15: when a step of role creation, role timeout configuration, database
\* creation or metadata insertion raises, the cleanup on the admin
\* connection sends DROP DATABASE exactly when this attempt created the
\* database and, unless that drop failed, DROP ROLE exactly when this
\* attempt created the role, the database first; no role or database that
\* this attempt did not create is dropped.
C15_CleanupDropsOnlyWhatWasCreated ==
    [][ (c_frame'.op = "provision_db" /\ c_frame'.response = "500"
         /\ c_frame'.error # <<>> /\ Carried(c_frame') \in CreationSteps)
        => LET log == c_frame'.statements
               drop_db == Positions(log, "DROP DATABASE IF EXISTS")
               drop_role == Positions(log, "DROP ROLE IF EXISTS")
               db_created == Created(log, "CREATE DATABASE") # {}
               role_created == Created(log, "CREATE ROLE") # {}
           IN  /\ (drop_db # {}) <=> db_created
               /\ (drop_role # {}) <=>
                      (role_created /\ \A i \in drop_db : log[i][3] = "ok")
               /\ \A i \in drop_db : \A j \in drop_role : i < j
               /\ \A i \in drop_db :
                      /\ log[i][2] \in Created(log, "CREATE DATABASE")
                      /\ \A k \in Positions(log, "CREATE DATABASE") : k < i
               /\ \A j \in drop_role :
                      /\ log[j][2] \in Created(log, "CREATE ROLE")
                      /\ \A k \in Positions(log, "CREATE ROLE") : k < j
               /\ roles \subseteq roles'
               /\ databases \subseteq databases' ]_vars

\* C15 witness: the metadata insertion failed, and the database and then the
\* role were dropped.
C15_Witness ==
    /\ Provisioned
    /\ c_frame.error # <<>>
    /\ Carried(c_frame) = "insert"
    /\ \E i, j \in 1..Len(c_frame.statements) :
        /\ i < j
        /\ c_frame.statements[i][1] = "DROP DATABASE IF EXISTS"
        /\ c_frame.statements[i][3] = "ok"
        /\ c_frame.statements[j][1] = "DROP ROLE IF EXISTS"
        /\ c_frame.statements[j][3] = "ok"

\* C16 as stated: when loading the sample dataset fails after the role, the
\* database and the row were created, the row's status becomes error, the
\* call raises, and the database still exists on the cluster afterwards.
C16_SampleFailureKeepsDatabase ==
    [][ (c_frame'.op = "provision_db" /\ c_frame'.error # <<>>
         /\ Carried(c_frame') = "sample_data")
        => /\ c_frame'.response = "500"
           /\ Len(provisioned_dbs') = Len(provisioned_dbs) + 1
           /\ provisioned_dbs'[Len(provisioned_dbs')].status = "error"
           /\ provisioned_dbs'[Len(provisioned_dbs')].db_name \in databases' ]_vars

\* the step of the statement of the try block that failed, if one did
FailedSteps(statements) ==
    { IF statements[i][1] = "CREATE ROLE" THEN "create_role"
      ELSE IF statements[i][1] = "ALTER ROLE SET statement_timeout"
           THEN "alter_role_statement_timeout"
      ELSE IF statements[i][1] = "ALTER ROLE SET idle_in_transaction_session_timeout"
           THEN "alter_role_idle_in_transaction_session_timeout"
      ELSE IF statements[i][1] = "CREATE DATABASE" THEN "create_database"
      ELSE IF statements[i][1] = "INSERT INTO provisioned_dbs" THEN "insert"
      ELSE "sample_data_update" :
      i \in { j \in 1..Len(statements) :
                /\ statements[j][3] = "error"
                /\ statements[j][1] \notin {"DROP DATABASE IF EXISTS", "DROP ROLE IF EXISTS"} } }

\* a statement of the compensating cleanup failed
CleanupFailed(statements) ==
    \E i \in 1..Len(statements) :
        /\ statements[i][1] \in {"DROP DATABASE IF EXISTS", "DROP ROLE IF EXISTS"}
        /\ statements[i][3] = "error"

\* C17: when a statement of the compensating cleanup fails, the provisioning
\* request still ends with the provisioning error (HTTP 500), and the error
\* carries the step of the provisioning that failed (the statement of the
\* try block that failed, or the sample data load), not the cleanup failure.
C17_CleanupFailureKeepsOriginalError ==
    (Provisioned /\ CleanupFailed(c_frame.statements))
        => /\ c_frame.response = "500"
           /\ c_frame.error[1] = "Failed to provision managed database"
           /\ Carried(c_frame) \in ProvisionFailures \ {"none", "connect"}
           /\ FailedSteps(c_frame.statements) \in {{Carried(c_frame)}, {}}
           /\ FailedSteps(c_frame.statements) = {} => Carried(c_frame) = "sample_data"

\* C17 witness: the database creation failed and then the drop of the role
\* failed too.
C17_Witness ==
    /\ Provisioned
    /\ CleanupFailed(c_frame.statements)
    /\ Carried(c_frame) = "create_database"

\* C18: when the quota check cannot be completed (the admin connection or a
\* count query fails), the request is not rejected for quota whatever the
\* rows are: it goes on to provision_database, and with the mode managed and
\* an admin connection it sends CREATE ROLE.
C18_QuotaCheckFailsOpen ==
    (Provisioned /\ c_frame.infra_error)
        => /\ c_frame.response \in {"200", "400", "500"}
           /\ c_frame.response = "200" =>
                  Created(c_frame.statements, "INSERT INTO provisioned_dbs") # {}
           /\ c_frame.response = "500" =>
                  \/ Carried(c_frame) \in ProvisionFailures \ {"none"}
                  \/ c_frame.error = <<"connectivity verification failed">>
           /\ (c_frame.response = "500" /\ Carried(c_frame) \in ProvisionFailures \ {"none", "connect"})
                  => Positions(c_frame.statements, "CREATE ROLE") # {}

\* C18 witness: the session had three active rows, the quota check failed,
\* and a fourth database was provisioned.
C18_Witness ==
    /\ Provisioned
    /\ c_frame.infra_error
    /\ c_frame.response = "200"
    /\ active_count(provisioned_dbs, {c_frame.session_id}) = provision_max_dbs_per_session + 1

\* the statements at k-3..k of a sequence are those of the deprovision of a
\* row, each completed: terminate, DROP DATABASE, DROP ROLE, UPDATE
DeprovisionedAt(statements, k, row) ==
    /\ k >= 4
    /\ statements[k - 3] = <<"SELECT pg_terminate_backend", row.db_name, "ok">>
    /\ statements[k - 2] = <<"DROP DATABASE IF EXISTS", row.db_name, "ok">>
    /\ statements[k - 1] = <<"DROP ROLE IF EXISTS", row.db_role, "ok">>
    /\ statements[k][1] = "UPDATE provisioned_dbs SET status = deleted"
    /\ statements[k][2] = row.id
    /\ statements[k][3] = "ok"

\* C19: a row becomes deleted only in a request (deprovision_db or the TTL
\* sweep) whose statements on the admin connection hold, for that row and in
\* this order, the termination of the backends, DROP DATABASE, DROP ROLE and
\* the UPDATE, all completed; and every UPDATE that marks a row deleted comes
\* right after these three, completed, for the same row.
C19_DeletedOnlyAfterBothDrops ==
    [][ LET log == c_frame'.statements IN
        /\ \A i \in 1..Len(provisioned_dbs) :
              (provisioned_dbs'[i].status = "deleted" /\ provisioned_dbs[i].status # "deleted")
                  => \E k \in 1..Len(log) : DeprovisionedAt(log, k, provisioned_dbs[i])
        /\ \A k \in Positions(log, "UPDATE provisioned_dbs SET status = deleted") :
              \E i \in 1..Len(provisioned_dbs) :
                  /\ provisioned_dbs[i].id = log[k][2]
                  /\ k >= 4
                  /\ log[k - 3] = <<"SELECT pg_terminate_backend", provisioned_dbs[i].db_name, "ok">>
                  /\ log[k - 2] = <<"DROP DATABASE IF EXISTS", provisioned_dbs[i].db_name, "ok">>
                  /\ log[k - 1] = <<"DROP ROLE IF EXISTS", provisioned_dbs[i].db_role, "ok">> ]_vars

\* C19 witness: a deprovision request has dropped the database and the role
\* of a row and marked it deleted.
C19_Witness ==
    /\ c_frame.op = "deprovision_db"
    /\ c_frame.response = "200"
    /\ \E i \in 1..Len(provisioned_dbs) :
        /\ provisioned_dbs[i].status = "deleted"
        /\ DeprovisionedAt(c_frame.statements, 4, provisioned_dbs[i])
        /\ provisioned_dbs[i].db_name \notin databases

\* C20: no request (provisioning and its cleanup, the activity ping of a
\* schema read, deprovision, the TTL sweep) removes a row of the metadata
\* table: every row stays at its place with its id, session, database name
\* and role name, and only its status and last_used_at change.
C20_RowsAreNeverRemoved ==
    [][ /\ Len(provisioned_dbs') >= Len(provisioned_dbs)
        /\ \A i \in 1..Len(provisioned_dbs) :
              provisioned_dbs'[i] =
                  [provisioned_dbs[i] EXCEPT !.status = provisioned_dbs'[i].status,
                                             !.last_used_at = provisioned_dbs'[i].last_used_at]
      ]_vars

\* C20 witness: the TTL sweep has dropped the database of a row, and the row
\* is there, marked deleted.
C20_Witness ==
    /\ c_frame.op = "cleanup_stale_databases"
    /\ c_frame.cleaned_count >= 1
    /\ \E k \in Positions(c_frame.statements, "UPDATE provisioned_dbs SET status = deleted") :
        \E i \in 1..Len(provisioned_dbs) :
            /\ provisioned_dbs[i].id = c_frame.statements[k][2]
            /\ provisioned_dbs[i].status = "deleted"

\* the rows a sweep with a TTL selects: active, last used before the cutoff
Stale(rows, clock, ttl_days) ==
    { i \in 1..Len(rows) : rows[i].status = "active" /\ rows[i].last_used_at < clock - ttl_days }

\* the statements of a sequence that are about a row: the ones that carry
\* its database name, its role name or its id
StatementsOf(statements, row) ==
    SelectSeq(statements, LAMBDA st :
        IF st[1] = "UPDATE provisioned_dbs SET status = deleted" THEN st[2] = row.id
        ELSE st[2] \in {row.db_name, row.db_role})

\* C21: a TTL sweep that is no dry run and gets its connection sends, for
\* every row that is active and was last used before the cutoff, the
\* termination of the backends and then the other steps of the deprovision
\* up to the first that fails, whatever happened to the rows before it in
\* the sweep; a row that is not active or not older than the cutoff is left
\* as it was and no statement is sent for it.
C21_SweepAttemptsEveryStaleRow ==
    [][ (c_frame'.op = "cleanup_stale_databases" /\ c_frame'.response = "returned"
         /\ ~c_frame'.dry_run)
        => \A i \in 1..Len(provisioned_dbs) :
              LET row == provisioned_dbs[i]
                  sent == StatementsOf(c_frame'.statements, row)
              IN  IF i \in Stale(provisioned_dbs, now, c_frame'.ttl_days)
                  THEN /\ Len(sent) >= 1
                       /\ sent[1][1] = "SELECT pg_terminate_backend"
                       /\ \A k \in 1..Len(sent) - 1 : sent[k][3] = "ok"
                       /\ (sent[Len(sent)][3] = "ok" =>
                              /\ Len(sent) = 4
                              /\ sent[2][1] = "DROP DATABASE IF EXISTS"
                              /\ sent[3][1] = "DROP ROLE IF EXISTS"
                              /\ sent[4][1] = "UPDATE provisioned_dbs SET status = deleted")
                  ELSE /\ provisioned_dbs'[i] = row
                       /\ sent = <<>>
      ]_vars

\* C21 witness: a sweep has failed on the first stale row and gone on to
\* drop the database of the second, while a row that was used today is
\* still active.
C21_Witness ==
    /\ c_frame.op = "cleanup_stale_databases"
    /\ ~c_frame.dry_run
    /\ Len(c_frame.statements) >= 5
    /\ c_frame.statements[1][3] = "error"
    /\ c_frame.statements[Len(c_frame.statements)][1] = "UPDATE provisioned_dbs SET status = deleted"
    /\ c_frame.statements[Len(c_frame.statements)][3] = "ok"
    /\ \E i \in 1..Len(provisioned_dbs) :
          provisioned_dbs[i].status = "active" /\ provisioned_dbs[i].last_used_at = now

\* a step of a credential update has failed
StepFailed(frame) ==
    \/ ~USERNAME_PATTERN_match(frame.user)
    \/ \E i \in 1..Len(frame.statements) : frame.statements[i][3] = "error"

\* a step outside the block that drops the old role has failed
FatalStepFailed(frame) ==
    \/ ~USERNAME_PATTERN_match(frame.user)
    \/ \E i \in 1..Len(frame.statements) :
          frame.statements[i][3] = "error" /\ frame.statements[i][1] \notin AdminSql

\* C22 as stated: whenever a step of a credential update fails, the
\* reassign-and-drop of the old role included, the session's configuration
\* after the call is the one before it.
C22_AnyFailureRestoresConfiguration ==
    [][ (c_frame'.op = "update_db_credentials" /\ c_frame'.response # "no_connection"
         /\ StepFailed(c_frame'))
        => _session_configs' = _session_configs ]_vars

\* C22 amended: when the validation of the username, the connection, the
\* password change, the creation of the role, the grants or the connection
\* test with the new identity fails, the call reports a failure and the
\* session's configuration after it is the one before it; when only a step
\* of the reassign-and-drop of the old role fails, the call reports success
\* and the session's configuration is the new identity.
C22_FatalFailureRestoresConfiguration ==
    [][ (c_frame'.op = "update_db_credentials" /\ c_frame'.response # "no_connection"
         /\ StepFailed(c_frame'))
        => IF FatalStepFailed(c_frame')
           THEN /\ c_frame'.response = "failure"
                /\ _session_configs' = _session_configs
           ELSE /\ c_frame'.response = "success"
                /\ _session_configs'.user = c_frame'.user
                /\ _session_configs'.dbname = _session_configs.dbname ]_vars

\* C22 witness: the connection test with the new user name failed after the
\* role was created and the configuration switched, and the session has the
\* old user name.
C22_Witness ==
    /\ c_frame.op = "update_db_credentials"
    /\ c_frame.response = "failure"
    /\ c_frame.user # _session_configs.user
    /\ \E i, j, k \in 1..Len(c_frame.statements) :
          /\ i < j /\ j < k
          /\ c_frame.statements[i] = <<"CREATE USER", c_frame.user, "ok">>
          /\ c_frame.statements[j] = <<"set_database_config", c_frame.user, "ok">>
          /\ c_frame.statements[k] = <<"get_connection", c_frame.user, "error">>

\* C23: a credential update whose new user name does not match
\* USERNAME_PATTERN reports a failure without a connection being opened or
\* a statement executed (the only thing it does is to put the old
\* configuration back), and it leaves the Schema Cache, the roles and the
\* session's configuration as they were.
C23_InvalidUsernameRejectedBeforeDatabase ==
    [][ (c_frame'.op = "update_db_credentials" /\ c_frame'.response # "no_connection"
         /\ ~USERNAME_PATTERN_match(c_frame'.user))
        => /\ c_frame'.response = "failure"
           /\ \A i \in 1..Len(c_frame'.statements) :
                 c_frame'.statements[i] = <<"set_database_config", _session_configs.user, "ok">>
           /\ UNCHANGED cacheVars
           /\ roles' = roles
           /\ _session_configs' = _session_configs ]_vars

\* C23 witness: an update to the user name a-b was rejected while the Schema
\* Cache held a model, and it still holds it.
C23_Witness ==
    /\ c_frame.op = "update_db_credentials"
    /\ c_frame.user = "a-b"
    /\ c_frame.response = "failure"
    /\ _schema_cache = "model"
    /\ cache_config = _session_configs

\* the positions of the statements of the reassign-and-drop block in a log
AdminPositions(statements) ==
    { i \in 1..Len(statements) : statements[i][1] \in AdminSql }

\* C24: in a credential update, every statement of the reassign-and-drop of
\* the old role (the admin connection included) comes after CREATE USER and
\* the grants for the new role, the switch of the session's configuration
\* to the new identity and a connection with the new identity, all
\* completed and in this order; when a connection of the update fails, no
\* such statement is sent and a managed old role is still there.
C24_OldRoleDroppedOnlyAfterNewIdentityConnects ==
    [][ (c_frame'.op = "update_db_credentials" /\ c_frame'.response # "no_connection")
        => LET log == c_frame'.statements
               new == c_frame'.user
           IN  /\ \A k \in AdminPositions(log) :
                     \E g, h, i, j \in 1..(k - 1) :
                        /\ g < h /\ h < i /\ i < j
                        /\ log[g] = <<"CREATE USER", new, "ok">>
                        /\ log[h] = <<"GRANT ALL PRIVILEGES", new, "ok">>
                        /\ log[i] = <<"set_database_config", new, "ok">>
                        /\ log[j] = <<"get_connection", new, "ok">>
               /\ (\E i \in 1..Len(log) : log[i][1] = "get_connection" /\ log[i][3] = "error")
                     => /\ AdminPositions(log) = {}
                        /\ _session_configs.user \in roles => _session_configs.user \in roles'
      ]_vars

\* C24 witness: a managed database's role was renamed: the old role was
\* dropped after the connection as the new one, and the session has the new
\* identity.
C24_Witness ==
    /\ c_frame.op = "update_db_credentials"
    /\ c_frame.response = "success"
    /\ _session_configs.user = c_frame.user
    /\ c_frame.user \in roles
    /\ \E j, k \in 1..Len(c_frame.statements) :
          /\ j < k
          /\ c_frame.statements[j] = <<"get_connection", c_frame.user, "ok">>
          /\ c_frame.statements[k][1] = "DROP USER"
          /\ c_frame.statements[k][3] = "ok"
          /\ c_frame.statements[k][2] \notin roles


\* ------------------------------------------------------------------------
\* DDL texts: CanonicalSchemaModel.to_ddl and from_ddl (schema_model.py) and
\* generate_ddl_from_action (schema/ddl_executor.py).  A call acts on a model
\* that calls of the mutation API have built.
\* ------------------------------------------------------------------------

\* the keys of the tables of the model, as sorted() orders them
KeyOrder == <<"public.archive", "public.customers", "public.orders">>

\* the names of the tables and schemas of the model
DdlTableNames == {"archive", "customers", "orders"}

DdlSchemas == {"public"}

\* s.split(".")[-1] of the key of a table
split_last(fqn) ==
    CHOOSE n \in DdlTableNames : \E schema \in DdlSchemas : fqn = FQN(schema, n)

\* a variant that emits NOT NULL for the columns that are nullable
column_line_not_null_swapped(col) ==
    <<"    ", col.name, " ", StrOf(col.type)>>
    \o (IF col.nullable THEN <<" ", "NOT NULL">> ELSE <<>>)

\* _generate_create_table_statement, 267-272: " ".join(col_parts)
column_line(col) ==
    <<"    ", col.name, " ", StrOf(col.type)>>
    \o (IF col.nullable THEN <<>> ELSE <<" ", "NOT NULL">>)

\* _generate_create_table_statement(table)
_generate_create_table_statement(table) ==
    LET pk == SelectSeq(table.columns, LAMBDA col : col.is_pk)
        pk_columns == [i \in 1..Len(pk) |-> <<pk[i].name>>]
        column_lines ==
            [i \in 1..Len(table.columns) |-> column_line(table.columns[i])]
            \o (IF pk_columns # <<>>
                THEN << <<"    CONSTRAINT ", table.name \o "_pkey", " PRIMARY KEY (">>
                        \o join(pk_columns, ", ") \o <<")">> >>
                ELSE <<>>)
    IN  <<"CREATE TABLE ", FQN(table.schema, table.name), " (", "\n">>
        \o join(column_lines, ",\n") \o <<"\n", ");">>

\* _generate_single_fk_statement(rel)
_generate_single_fk_statement(rel) ==
    LET from_table_name == split_last(rel.from_table)
        constraint_name == from_table_name \o "_" \o rel.from_column \o "_fkey"
    IN  <<"ALTER TABLE ", rel.from_table, "\n    ADD CONSTRAINT ", constraint_name,
          "\n    FOREIGN KEY (", rel.from_column, ")\n    REFERENCES ", rel.to_table, " (",
          rel.to_column, ");">>

\* _generate_foreign_key_statements(): the relationships grouped by source
\* table, the groups in the order of sorted()
_generate_foreign_key_statements(R) ==
    LET sorted_keys == SelectSeq(KeyOrder, LAMBDA k : \E i \in 1..Len(R) : R[i].from_table = k)
        group(k) == SelectSeq(R, LAMBDA rel : rel.from_table = k)
        statements(k) == [i \in 1..Len(group(k)) |-> _generate_single_fk_statement(group(k)[i])]
        flat[n \in 0..Len(sorted_keys)] ==
            IF n = 0 THEN <<>> ELSE flat[n - 1] \o statements(sorted_keys[n])
    IN  flat[Len(sorted_keys)]

\* to_ddl()
to_ddl(T, R) ==
    LET sorted_tables == SelectSeq(KeyOrder, LAMBDA k : k \in DOMAIN T)
        ddl_statements ==
            [i \in 1..Len(sorted_tables) |-> _generate_create_table_statement(T[sorted_tables[i]])]
            \o _generate_foreign_key_statements(R)
    IN  join(ddl_statements, "\n\n")

\* sqlglot's tokenizer: the tokens of the literal pieces of a text
Lexemes ==
    ("CREATE TABLE " :> <<"CREATE", "TABLE">>) @@ (" (" :> <<"(">>) @@ ("\n" :> <<>>) @@
    (",\n" :> <<",">>) @@ ("    " :> <<>>) @@ (" " :> <<>>) @@
    ("NOT NULL" :> <<"NOT", "NULL">>) @@ ("    CONSTRAINT " :> <<"CONSTRAINT">>) @@
    (" PRIMARY KEY (" :> <<"PRIMARY", "KEY", "(">>) @@ (", " :> <<",">>) @@
    (")" :> <<")">>) @@ (");" :> <<")", ";">>) @@ ("\n\n" :> <<>>) @@
    ("ALTER TABLE " :> <<"ALTER", "TABLE">>) @@
    ("\n    ADD CONSTRAINT " :> <<"ADD", "CONSTRAINT">>) @@
    ("\n    FOREIGN KEY (" :> <<"FOREIGN", "KEY", "(">>) @@
    (")\n    REFERENCES " :> <<")", "REFERENCES">>)

\* the tokens of a piece: those of a literal piece, schema "." table of a
\* qualified name, the word itself otherwise
tokens_of(piece) ==
    IF piece \in DOMAIN Lexemes THEN Lexemes[piece]
    ELSE IF \E schema \in DdlSchemas, n \in DdlTableNames : piece = FQN(schema, n)
         THEN LET p == CHOOSE p \in DdlSchemas \X DdlTableNames : piece = FQN(p[1], p[2])
              IN  <<p[1], ".", p[2]>>
         ELSE <<piece>>

RECURSIVE tokenize(_)
tokenize(ddl_text) ==
    IF ddl_text = <<>> THEN <<>> ELSE tokens_of(Head(ddl_text)) \o tokenize(Tail(ddl_text))

\* the token sequences of the statements of a text, split at ";"
RECURSIVE split_statements(_, _)
split_statements(tokens, current) ==
    IF tokens = <<>> THEN (IF current = <<>> THEN <<>> ELSE <<current>>)
    ELSE IF Head(tokens) = ";" THEN <<current>> \o split_statements(Tail(tokens), <<>>)
    ELSE split_statements(Tail(tokens), Append(current, Head(tokens)))

\* the items between the parentheses that open at position i - 1, split at
\* the commas outside nested parentheses; next is the position after ")"
RECURSIVE split_items(_, _, _, _, _)
split_items(tokens, i, depth, current, items) ==
    IF i > Len(tokens) THEN [items |-> items, next |-> i, closed |-> FALSE]
    ELSE IF tokens[i] = ")" /\ depth = 0
         THEN [items |-> IF current = <<>> THEN items ELSE Append(items, current),
               next |-> i + 1, closed |-> TRUE]
    ELSE IF tokens[i] = "," /\ depth = 0
         THEN split_items(tokens, i + 1, 0, <<>>, Append(items, current))
    ELSE split_items(tokens, i + 1,
                     IF tokens[i] = "(" THEN depth + 1
                     ELSE IF tokens[i] = ")" THEN depth - 1 ELSE depth,
                     Append(current, tokens[i]), items)

\* a table reference: [db "."] name
parse_table(tokens, i) ==
    IF i + 2 <= Len(tokens) /\ tokens[i + 1] = "."
    THEN [db |-> tokens[i], name |-> tokens[i + 2], next |-> i + 3]
    ELSE [db |-> "", name |-> tokens[i], next |-> i + 1]

\* the names of a parenthesised list of columns that opens at position i
column_names(tokens, i) ==
    LET list == split_items(tokens, i + 1, 0, <<>>, <<>>).items
    IN  [k \in 1..Len(list) |-> list[k][1]]

\* an expression of the column list of CREATE TABLE: exp.Constraint,
\* exp.PrimaryKey or exp.ColumnDef
parse_expression(item) ==
    IF item[1] = "CONSTRAINT"
    THEN [kind |-> "Constraint", name |-> item[2], type |-> "", not_null |-> FALSE,
          primary_key |-> FALSE,
          columns |-> IF Len(item) >= 5 /\ item[3] = "PRIMARY" THEN column_names(item, 5)
                      ELSE <<>>]
    ELSE IF item[1] = "PRIMARY"
    THEN [kind |-> "PrimaryKey", name |-> "", type |-> "", not_null |-> FALSE,
          primary_key |-> FALSE, columns |-> column_names(item, 3)]
    ELSE [kind |-> "ColumnDef", name |-> item[1], type |-> item[2],
          not_null |-> \E k \in 3..(Len(item) - 1) : item[k] = "NOT" /\ item[k + 1] = "NULL",
          primary_key |-> \E k \in 3..(Len(item) - 1) : item[k] = "PRIMARY" /\ item[k + 1] = "KEY",
          columns |-> <<>>]

\* the tree of a statement: exp.Create of a table, exp.Alter with an ADD
\* CONSTRAINT ... FOREIGN KEY, or another statement
parse_statement(tokens) ==
    LET none == [kind |-> "Command", create_kind |-> "", db |-> "", name |-> "",
                 expressions |-> <<>>, foreign_key |-> <<>>]
    IN  IF Len(tokens) >= 4 /\ tokens[1] = "CREATE" /\ tokens[2] = "TABLE"
        THEN LET table == parse_table(tokens, 3)
                 list == IF table.next <= Len(tokens) /\ tokens[table.next] = "("
                         THEN split_items(tokens, table.next + 1, 0, <<>>, <<>>).items
                         ELSE <<>>
             IN  [none EXCEPT !.kind = "Create", !.create_kind = "TABLE", !.db = table.db,
                              !.name = table.name,
                              !.expressions = [k \in 1..Len(list) |-> parse_expression(list[k])]]
        ELSE IF Len(tokens) >= 3 /\ tokens[1] = "ALTER" /\ tokens[2] = "TABLE"
        THEN LET table == parse_table(tokens, 3)
                 i == table.next
             IN  IF i + 5 <= Len(tokens) /\ tokens[i] = "ADD" /\ tokens[i + 1] = "CONSTRAINT"
                    /\ tokens[i + 3] = "FOREIGN" /\ tokens[i + 4] = "KEY"
                 THEN LET from_columns == split_items(tokens, i + 6, 0, <<>>, <<>>)
                          to_table == parse_table(tokens, from_columns.next + 1)
                      IN  [none EXCEPT !.kind = "Alter", !.db = table.db, !.name = table.name,
                                       !.foreign_key =
                                           << [from_column |-> from_columns.items[1][1],
                                               to_db |-> to_table.db, to_name |-> to_table.name,
                                               to_column |-> column_names(tokens, to_table.next)[1]] >>]
                 ELSE [none EXCEPT !.kind = "Alter", !.db = table.db, !.name = table.name]
        ELSE none

\* sqlglot.parse(ddl_text, read = "postgres")
sqlglot_parse(ddl_text) ==
    LET statements == split_statements(tokenize(ddl_text), <<>>)
    IN  [i \in 1..Len(statements) |-> parse_statement(statements[i])]

\* the text sqlglot gives back for a type, in lower case
TypeSql == ("integer" :> "int") @@ ("int" :> "int") @@ ("numeric" :> "decimal")
           @@ ("decimal" :> "decimal") @@ ("text" :> "text")

\* _extract_column_type(expr)
_extract_column_type(expr) == Chars[TypeSql[expr.type]]

\* _extract_nullable(expr)
_extract_nullable(expr) == ~expr.not_null

\* _is_primary_key_inline(expr)
_is_primary_key_inline(expr) == expr.primary_key

\* _process_create_table(statement, tables_dict): the dictionary afterwards
_process_create_table(statement, tables_dict) ==
    LET schema_name == IF statement.db # "" THEN statement.db ELSE "public"
        defs == SelectSeq(statement.expressions, LAMBDA expr : expr.kind = "ColumnDef")
        pk_columns ==
            { defs[i].name : i \in { j \in 1..Len(defs) : _is_primary_key_inline(defs[j]) } }
            \cup UNION { { expr.columns[k] : k \in 1..Len(expr.columns) } :
                           expr \in { statement.expressions[i] :
                               i \in { j \in 1..Len(statement.expressions) :
                                   statement.expressions[j].kind \in {"PrimaryKey", "Constraint"} } } }
        columns == [i \in 1..Len(defs) |->
                       [name |-> defs[i].name, type |-> _extract_column_type(defs[i]),
                        is_pk |-> defs[i].name \in pk_columns, is_fk |-> FALSE,
                        nullable |-> _extract_nullable(defs[i])]]
        fully_qualified_name == FQN(schema_name, statement.name)
        table == [name |-> statement.name, schema |-> schema_name, columns |-> columns]
    IN  [k \in DOMAIN tables_dict \cup {fully_qualified_name} |->
            IF k = fully_qualified_name THEN table ELSE tables_dict[k]]

\* _process_alter_table(statement, tables_dict, relationships_list): the
\* dictionary and the list afterwards
_process_alter_table(statement, tables_dict, relationships_list) ==
    IF statement.foreign_key = <<>>
    THEN [tables |-> tables_dict, relationships |-> relationships_list]
    ELSE LET fk == statement.foreign_key[1]
             from_table == FQN(IF statement.db # "" THEN statement.db ELSE "public",
                               statement.name)
             to_table == FQN(IF fk.to_db # "" THEN fk.to_db ELSE "public", fk.to_name)
         IN  [tables |->
                 [k \in DOMAIN tables_dict |->
                     IF k # from_table THEN tables_dict[k]
                     ELSE [tables_dict[k] EXCEPT !.columns =
                              [i \in 1..Len(tables_dict[k].columns) |->
                                  IF tables_dict[k].columns[i].name = fk.from_column
                                  THEN [tables_dict[k].columns[i] EXCEPT !.is_fk = TRUE]
                                  ELSE tables_dict[k].columns[i]]]],
              relationships |->
                 Append(relationships_list,
                        Relationship(from_table, fk.from_column, to_table, fk.to_column))]

\* from_ddl(ddl_text): the two passes over the statements
from_ddl(ddl_text) ==
    LET statements == sqlglot_parse(ddl_text)
        creates[n \in 0..Len(statements)] ==
            IF n = 0 THEN <<>>
            ELSE IF statements[n].kind = "Create" /\ statements[n].create_kind = "TABLE"
                 THEN _process_create_table(statements[n], creates[n - 1])
                 ELSE creates[n - 1]
        alters[n \in 0..Len(statements)] ==
            IF n = 0 THEN [tables |-> creates[Len(statements)], relationships |-> <<>>]
            ELSE IF statements[n].kind = "Alter"
                 THEN _process_alter_table(statements[n], alters[n - 1].tables,
                                           alters[n - 1].relationships)
                 ELSE alters[n - 1]
    IN  alters[Len(statements)]

\* the columns of the tables of the model
DdlColumns ==
    { [name |-> "id", type |-> integer, is_pk |-> TRUE, is_fk |-> FALSE, nullable |-> FALSE],
      [name |-> "customer_id", type |-> integer, is_pk |-> FALSE, is_fk |-> FALSE,
       nullable |-> TRUE],
      [name |-> "total", type |-> Chars["numeric"], is_pk |-> FALSE, is_fk |-> FALSE,
       nullable |-> FALSE] }

\* the lists of columns a table is added with: no name twice
DdlColumnLists ==
    { columns \in UNION { [1..n -> DdlColumns] : n \in 0..MaxCols } :
        \A i, j \in 1..Len(columns) : i # j => columns[i].name # columns[j].name }

\* the models one more call of add_table or add_relationship builds
Built(models) ==
    models \cup
    { [tables |-> r.tables, relationships |-> r.relationships] :
        r \in { r \in
            UNION { { add_table(m.tables, m.relationships, name, schema, columns) :
                        name \in DdlTableNames, schema \in DdlSchemas,
                        columns \in DdlColumnLists }
                    \cup
                    { add_relationship(m.tables, m.relationships, from_table, "customer_id",
                                       to_table, "id", "public", "public") :
                        from_table \in DdlTableNames, to_table \in DdlTableNames } :
                    m \in models } :
            r.exc = "none" /\ WithinBounds(r) } }

\* the models that up to four such calls build from the empty one
DdlModels == Built(Built(Built(Built({ [tables |-> <<>>, relationships |-> <<>>] }))))

\* the actions whose DDL is generated
DdlActions ==
    { [NoAction EXCEPT !.type = "add_table", !.name = name, !.columns = columns] :
        name \in {"orders"}, columns \in DdlColumnLists }
    \cup { [NoAction EXCEPT !.type = "rename_table", !.old_name = "orders",
                            !.new_name = "archive"],
           [NoAction EXCEPT !.type = "drop_table", !.name = "customers"],
           [NoAction EXCEPT !.type = "drop_table", !.name = "customers", !.force = TRUE],
           [NoAction EXCEPT !.type = "add_column", !.table = <<"orders">>,
                            !.column = << CHOOSE col \in DdlColumns : col.name = "total" >>],
           [NoAction EXCEPT !.type = "rename_column", !.table = <<"public", "orders">>,
                            !.old_col = "total", !.new_col = "amount"],
           [NoAction EXCEPT !.type = "drop_column", !.table = <<"orders">>,
                            !.column_name = "customer_id", !.force = TRUE],
           [NoAction EXCEPT !.type = "drop_column", !.table = <<"orders">>,
                            !.column_name = "total"],
           [NoAction EXCEPT !.type = "add_relationship", !.from_table = <<"public", "orders">>,
                            !.from_column = "customer_id", !.to_table = <<"customers">>,
                            !.to_column = "id"],
           [NoAction EXCEPT !.type = "remove_relationship", !.from_table = <<"orders">>,
                            !.from_column = "customer_id", !.to_table = <<"customers">>,
                            !.to_column = "id"] }

\* m.to_ddl(), from_ddl of it and to_ddl again, twice
RoundTrip ==
    /\ d_frame.op = ""
    /\ LET d1 == to_ddl(tables, relationships)
           m2 == from_ddl(d1)
           d2 == to_ddl(m2.tables, m2.relationships)
           m3 == from_ddl(d2)
           d3 == to_ddl(m3.tables, m3.relationships)
       IN  d_frame' = [op |-> "round_trip", d1 |-> d1, d2 |-> d2, d3 |-> d3,
                       parsed |-> m2]
    /\ UNCHANGED <<tables, relationships, result, v_sql, v_out, _schema_cache,
                   _session_configs, e_frame, e_db, s_frame, db_version, cache_version,
                   cache_config, c_frame, p_frames, peer>>
    /\ UNCHANGED clusterVars

\* one action of apply_er_edits (routes/schema.py 190-196): the action is
\* applied to the model and, unless that raises, its DDL generated
GenerateDdl ==
    /\ d_frame.op = ""
    /\ \E action \in DdlActions :
        LET r == _apply_single_action(tables, relationships, action) IN
        /\ tables' = r.tables
        /\ relationships' = r.relationships
        /\ d_frame' = [op |-> "generate", action |-> action, exc |-> r.exc,
                       ddl |-> IF r.exc = "none" THEN generate_ddl_from_action(action)
                               ELSE <<>>,
                       before |-> to_ddl(tables, relationships),
                       after |-> to_ddl(r.tables, r.relationships)]
    /\ UNCHANGED <<result, v_sql, v_out, _schema_cache, _session_configs, e_frame, e_db,
                   s_frame, db_version, cache_version, cache_config, c_frame, p_frames, peer>>
    /\ UNCHANGED clusterVars

InitDdl ==
    /\ \E m \in DdlModels :
        /\ tables = m.tables
        /\ relationships = m.relationships
    /\ _schema_cache = "model"
    /\ _session_configs = NoConfig
    /\ cache_version = 0
    /\ cache_config = NoConfig
    /\ roles = {}
    /\ databases = {}
    /\ provisioned_dbs = <<>>
    /\ now = 0
    /\ InitOthers

NextDdl ==
    \/ RoundTrip
    \/ GenerateDdl

SpecDdl == InitDdl /\ [][NextDdl]_vars

\* C25: for every model m, with d1 = m.to_ddl(), d2 = from_ddl(d1).to_ddl()
\* and d3 = from_ddl(d2).to_ddl(), the texts d2 and d3 are the same, piece
\* by piece.
C25_SecondAndThirdTextIdentical ==
    d_frame.op = "round_trip" => d_frame.d2 = d_frame.d3

\* C25 witness: a model with two tables, a primary key and a relationship
\* went through the round trip; the parser read both tables and the
\* relationship back, and the second text differs from the first (sqlglot
\* renders integer as int).
C25_Witness ==
    /\ d_frame.op = "round_trip"
    /\ Cardinality(DOMAIN tables) = 2
    /\ Len(relationships) = 1
    /\ DOMAIN d_frame.parsed.tables = DOMAIN tables
    /\ d_frame.parsed.relationships = relationships
    /\ \E k \in DOMAIN tables : \E i \in 1..Len(tables[k].columns) : tables[k].columns[i].is_pk
    /\ d_frame.d1 # d_frame.d2
    /\ d_frame.d2 = d_frame.d3

\* the constraint names a DDL text carries: the identifier after each
\* CONSTRAINT keyword, without the double quotes around it
constraint_names(ddl_text) ==
    { IF ddl_text[i + 1] = "\"" THEN ddl_text[i + 2] ELSE ddl_text[i + 1] :
        i \in { i \in 1..(Len(ddl_text) - 1) :
                  ddl_text[i] \in {"CONSTRAINT ", "    CONSTRAINT ", "ADD CONSTRAINT ",
                                   "\n    ADD CONSTRAINT ", " DROP CONSTRAINT "} } }

\* the relationship an add_relationship or remove_relationship action names
action_relationship(action) ==
    LET params == _extract_action_params(action) IN
    [from_table |-> FQN(params.from_schema, params.from_table),
     from_column |-> params.from_column,
     to_table |-> FQN(params.to_schema, params.to_table),
     to_column |-> params.to_column]

\* C26: the constraint names in the DDL generate_ddl_from_action returns for
\* add_table, add_relationship and remove_relationship are the names to_ddl
\* emits for the same table and the same relationship: <table>_pkey for a
\* table with primary key columns, <table>_<column>_fkey for a relationship.
C26_GeneratedConstraintNamesEqualModelNames ==
    (d_frame.op = "generate" /\ d_frame.exc = "none") =>
        LET action == d_frame.action
            names == constraint_names(d_frame.ddl)
        IN  /\ action.type = "add_table" =>
                /\ names = constraint_names(_generate_create_table_statement(
                               tables[FQN(action.schema, action.name)]))
                /\ names \subseteq {action.name \o "_pkey"}
            /\ action.type \in {"add_relationship", "remove_relationship"} =>
                /\ names = constraint_names(_generate_single_fk_statement(
                               action_relationship(action)))
                /\ names = {split_last(action_relationship(action).from_table) \o "_"
                            \o action.from_column \o "_fkey"}
            /\ action.type = "add_relationship" => names \subseteq constraint_names(d_frame.after)
            /\ action.type = "remove_relationship" =>
                names \subseteq constraint_names(d_frame.before)

\* C26 witness: a table with a primary key was added to a model and its DDL
\* names the constraint orders_pkey, as the text of the model after it does.
C26_Witness ==
    /\ d_frame.op = "generate"
    /\ d_frame.exc = "none"
    /\ d_frame.action.type = "add_table"
    /\ constraint_names(d_frame.ddl) = {"orders_pkey"}
    /\ "orders_pkey" \in constraint_names(d_frame.after)
    /\ "orders_pkey" \notin constraint_names(d_frame.before)

\* the schema, table, column and constraint identifiers of the DDL of an action
identifiers(action) ==
    LET params == _extract_action_params(action) IN
    ({ params.schema, params.name, params.old_name, params.new_name, params.table_name,
       params.old_col, params.new_col, params.column_name, params.column_schema,
       params.from_schema, params.from_table, params.from_column, params.to_schema,
       params.to_table, params.to_column,
       params.name \o "_pkey", params.from_table \o "_" \o params.from_column \o "_fkey" }
     \cup { params.columns[i].name : i \in 1..Len(params.columns) }
     \cup { params.column[i].name : i \in 1..Len(params.column) })
    \ {""}

\* the piece at position i of the text stands between two double quotes
IsQuoted(ddl_text, i) ==
    /\ i > 1
    /\ i < Len(ddl_text)
    /\ ddl_text[i - 1] = "\""
    /\ ddl_text[i + 1] = "\""

\* C27: in the DDL generate_ddl_from_action returns, for every action kind
\* and every parameter set it accepts, every schema, table, column and
\* constraint identifier stands between a matching pair of double quotes.
C27_EveryIdentifierQuoted ==
    (d_frame.op = "generate" /\ d_frame.exc = "none") =>
        \A i \in 1..Len(d_frame.ddl) :
            d_frame.ddl[i] \in identifiers(d_frame.action) => IsQuoted(d_frame.ddl, i)

\* ------------------------------------------------------------------------
\* Schema Model: rejected relationships and guarded drops
\* ------------------------------------------------------------------------

\* C28: on every model the mutation calls reach, add_relationship raises
\* SchemaValidationError whenever the target column is not marked is_pk; it
\* then adds no relationship and leaves the source column's is_fk as it was.
C28_TargetNotPkRejected ==
    \A from_table \in TableNames, from_column \in ColumnNames,
       to_table \in TableNames, to_column \in ColumnNames, schema \in Schemas :
        ( /\ HasColumn(tables, FQN(schema, to_table), to_column)
          /\ ~ColumnOf(tables, FQN(schema, to_table), to_column).is_pk )
        => LET r == add_relationship(tables, relationships, from_table, from_column,
                                     to_table, to_column, schema, schema)
           IN  /\ r.exc = SchemaValidationError
               /\ r.relationships = relationships
               /\ HasColumn(tables, FQN(schema, from_table), from_column)
                  => /\ HasColumn(r.tables, FQN(schema, from_table), from_column)
                     /\ ColumnOf(r.tables, FQN(schema, from_table), from_column).is_fk
                        = ColumnOf(tables, FQN(schema, from_table), from_column).is_fk

\* C28 witness: a call was rejected on a model where a source column that is
\* not a foreign key and a target column that is not a primary key exist in
\* two different tables, and no relationship exists.
C28_Witness ==
    /\ result = SchemaValidationError
    /\ relationships = <<>>
    /\ \E from_table \in DOMAIN tables, to_table \in DOMAIN tables :
        /\ from_table # to_table
        /\ HasColumn(tables, from_table, "id")
        /\ ~ColumnOf(tables, from_table, "id").is_fk
        /\ HasColumn(tables, to_table, "customer_id")
        /\ ~ColumnOf(tables, to_table, "customer_id").is_pk

\* C29: on every model the mutation calls reach, drop_table on a table that
\* an existing relationship references raises when force is false and
\* changes nothing; with force it succeeds, the table is gone and so is every
\* relationship that has it as source or as target, the other relationships
\* staying in their order.
C29_ReferencedTableNeedsForce ==
    \A name \in TableNames, schema \in Schemas :
        LET fully_qualified_name == FQN(schema, name)
            refused == drop_table(tables, relationships, name, schema, FALSE)
            forced == drop_table(tables, relationships, name, schema, TRUE)
        IN
        ( /\ fully_qualified_name \in DOMAIN tables
          /\ \E i \in 1..Len(relationships) : relationships[i].to_table = fully_qualified_name )
        => /\ refused.exc = SchemaValidationError
           /\ refused.tables = tables
           /\ refused.relationships = relationships
           /\ forced.exc = "none"
           /\ DOMAIN forced.tables = (DOMAIN tables) \ {fully_qualified_name}
           /\ \A k \in DOMAIN forced.tables : forced.tables[k] = tables[k]
           /\ \A i \in 1..Len(forced.relationships) :
                 /\ forced.relationships[i].from_table # fully_qualified_name
                 /\ forced.relationships[i].to_table # fully_qualified_name
           /\ forced.relationships =
                 SelectSeq(relationships,
                           LAMBDA rel : /\ rel.from_table # fully_qualified_name
                                        /\ rel.to_table # fully_qualified_name)

\* C29 witness: a table that is both the target and the source of a
\* relationship exists, and a call has just been refused.
C29_Witness ==
    /\ result = SchemaValidationError
    /\ \E k \in DOMAIN tables :
        /\ \E i \in 1..Len(relationships) : relationships[i].to_table = k
        /\ \E i \in 1..Len(relationships) : relationships[i].from_table = k

\* f"{r.from_table}.{r.from_column}" for r in referenced_by (drop_column, 520)
fk_details(referenced_by) ==
    [i \in 1..Len(referenced_by) |->
        <<referenced_by[i].from_table \o "." \o referenced_by[i].from_column>>]

\* the message of the error drop_column raises for a referenced column
\* (drop_column, 522-526)
referenced_message(R, fully_qualified_name, column_name) ==
    <<"Cannot drop column '", fully_qualified_name, ".", column_name, "'. ",
      "It is referenced by foreign keys: ">>
    \o join(fk_details(_is_column_referenced_by_fk(R, fully_qualified_name, column_name)), ", ")
    \o <<". ", "Use force=True to drop anyway.">>

\* the text occurs as a piece of the message
Mentions(message, piece) == \E i \in 1..Len(message) : message[i] = piece

\* C30: on every model the mutation calls reach, drop_column without force
\* raises SchemaValidationError if the column is the target of an incoming
\* relationship or the source of an outgoing one, and changes nothing; for an
\* incoming reference the message names each referencing table.column, such
\* as public.orders.customer_id.
C30_ReferencedColumnRejectedAndNamed ==
    \A table_name \in TableNames, column_name \in ColumnNames, schema \in Schemas :
        LET fully_qualified_name == FQN(schema, table_name)
            incoming == \E i \in 1..Len(relationships) :
                           /\ relationships[i].to_table = fully_qualified_name
                           /\ relationships[i].to_column = column_name
            outgoing == IsSource(relationships, fully_qualified_name, column_name)
            r == drop_column(tables, relationships, table_name, column_name, schema, FALSE)
        IN
        ( /\ HasColumn(tables, fully_qualified_name, column_name)
          /\ incoming \/ outgoing )
        => /\ r.exc = SchemaValidationError
           /\ r.tables = tables
           /\ r.relationships = relationships
           /\ \A i \in 1..Len(relationships) :
                 ( /\ relationships[i].to_table = fully_qualified_name
                   /\ relationships[i].to_column = column_name )
                 => Mentions(referenced_message(relationships, fully_qualified_name,
                                                column_name),
                             relationships[i].from_table \o "."
                             \o relationships[i].from_column)

\* C30 witness: a call was rejected on a model where customers.id is
\* referenced by orders.customer_id, and the message for dropping it names
\* public.orders.customer_id.
C30_Witness ==
    /\ result = SchemaValidationError
    /\ \E i \in 1..Len(relationships) :
          relationships[i] = Relationship("public.orders", "customer_id",
                                          "public.customers", "id")
    /\ Mentions(referenced_message(relationships, "public.customers", "id"),
                "public.orders.customer_id")

\* ------------------------------------------------------------------------
\* Schema Model: column names, renames
\* ------------------------------------------------------------------------

\* C31: after any sequence of mutation calls on a model built from empty, no
\* table contains two columns with the same name, including the tables
\* add_table creates with an initial column list.
C31_NoDuplicateColumnNames ==
    \A k \in DOMAIN tables :
        \A i, j \in 1..Len(tables[k].columns) :
            i # j => tables[k].columns[i].name # tables[k].columns[j].name

C33_InvalidActionExecutesNothing ==
    (s_frame.kind = "er" /\ s_frame.errors # <<>>)
        => /\ e_db.executed = <<>>
           /\ ~e_db.committed
           /\ db_version = 0

\* C33 witness: an er-edit request whose first action was valid (it changed
\* the cached model) and whose second action failed validation has ended.
C33_Witness ==
    /\ EditDone
    /\ s_frame.kind = "er"
    /\ s_frame.failed = "validation"
    /\ Len(s_frame.errors) = 1
    /\ s_frame.before.cache = "model"
    /\ tables # s_frame.before.tables
    /\ e_db = NoDb

\* validate_and_normalize_sql returns for the statement alone
PermittedAlone(statement, T) ==
    validate_and_normalize_sql(Parsed(<<statement>>), T).exc = "none"

MaxRequests == 2

\* a provisioning request that a worker has received
ReceiveProvision ==
    /\ Len(p_frames) < MaxRequests
    /\ p_frames' = Append(p_frames, [pc |-> "check_quotas", session_id |-> SessionId,
                                     response |-> ""])
    /\ UNCHANGED <<roles, databases, provisioned_dbs, now, _session_configs, c_frame>>
    /\ UNCHANGED cacheVars
    /\ UNCHANGED <<result, v_sql, v_out, e_frame, e_db, s_frame, db_version, d_frame, peer>>

\* provision_db up to the answer of _check_quotas (routes/db_provision.py
\* 146-153): the counts are read on a connection of their own, which is
\* closed before the request goes on
CheckQuotas(i) ==
    /\ p_frames[i].pc = "check_quotas"
    /\ LET quota == _check_quotas(p_frames[i].session_id, FALSE) IN
       p_frames' = [p_frames EXCEPT ![i] =
                       IF quota = "ok" THEN [@ EXCEPT !.pc = "provision"]
                       ELSE [@ EXCEPT !.pc = "done", !.response = "429"]]
    /\ UNCHANGED <<roles, databases, provisioned_dbs, now, _session_configs, c_frame>>
    /\ UNCHANGED cacheVars
    /\ UNCHANGED <<result, v_sql, v_out, e_frame, e_db, s_frame, db_version, d_frame, peer>>

\* provision_db after the quota check (routes/db_provision.py 155-195):
\* _provision_managed_database, the connectivity check, the session's
\* configuration
ProvisionAfterCheck(i) ==
    /\ p_frames[i].pc = "provision"
    /\ \E in \in ProvisionInputs :
        /\ in.session_id = p_frames[i].session_id
        /\ in.mode = "managed"
        /\ ~in.infra_error
        /\ LET p == _provision_managed_database(in.session_id, in.load_sample, in.shortid,
                                                in.fails, in.cleanup_fails)
               ok == ~p.raised /\ in.verified
           IN  /\ roles' = p.roles
               /\ databases' = p.databases
               /\ provisioned_dbs' = p.provisioned_dbs
               /\ _session_configs' = IF ok THEN p.db_config ELSE _session_configs
               /\ p_frames' = [p_frames EXCEPT ![i] =
                                  [@ EXCEPT !.pc = "done",
                                            !.response = IF ok THEN "200" ELSE "500"]]
    /\ UNCHANGED <<now, c_frame>>
    /\ UNCHANGED cacheVars
    /\ UNCHANGED <<result, v_sql, v_out, e_frame, e_db, s_frame, db_version, d_frame, peer>>

\* a session whose rows are within the quota, on the first day and with an
\* empty Schema Cache, and no request yet
InitQuota ==
    /\ InitProvision
    /\ now = 0
    /\ _schema_cache = "None"
    /\ active_count(provisioned_dbs, {SessionId}) <= provision_max_dbs_per_session

NextQuota ==
    \/ ReceiveProvision
    \/ \E i \in 1..Len(p_frames) : CheckQuotas(i)
    \/ \E i \in 1..Len(p_frames) : ProvisionAfterCheck(i)

SpecQuota == InitQuota /\ [][NextQuota]_vars

\* C35: under any interleaving of concurrent provisioning requests of one
\* session, every quota query succeeding, the number of the session's rows
\* in status active never exceeds provision_max_dbs_per_session.
C35_SessionActiveRowsWithinQuota ==
    active_count(provisioned_dbs, {SessionId}) <= provision_max_dbs_per_session

\* C36: between operations, every metadata row in status active has its
\* database and its role on the cluster, also when steps of provisioning,
\* of deprovisioning or of the TTL sweep fail.
C36_ActiveRowsHaveDatabaseAndRole ==
    \A i \in 1..Len(provisioned_dbs) :
        provisioned_dbs[i].status = "active"
            => /\ provisioned_dbs[i].db_name \in databases
               /\ provisioned_dbs[i].db_role \in roles

\* ---------------------------------------------------------------------
\* Two sessions on one process: _session_configs has an entry for each,
\* the Schema Cache is the one module global of schema/cache.py

\* the session id of the second session
PeerId == "s2"

\* the database of the second session
Db3Bob == DatabaseConfig("db3", "bob", "pw3")

\* POST /api/config/db of the second session
PeerSetDb ==
    /\ \E config \in {Db3Bob}, connects \in BOOLEAN :
        LET old_config == peer.config IN
        IF connects
        THEN /\ peer' = [peer EXCEPT !.config = config]
             /\ clear_schema_cache
             /\ c_frame' = [Response("set_db", "success") EXCEPT !.session_id = PeerId]
        ELSE /\ peer' = [peer EXCEPT !.config = IF old_config # NoConfig THEN old_config
                                                ELSE config]
             /\ UNCHANGED cacheVars
             /\ c_frame' = [Response("set_db", "failure") EXCEPT !.session_id = PeerId]
    /\ UNCHANGED _session_configs
    /\ UNCHANGED clusterVars
    /\ UNCHANGED <<result, v_sql, v_out, e_frame, e_db, s_frame, db_version, d_frame, p_frames>>

\* GET /api/schema of the second session: a connection of the session's
\* own configuration, then get_or_refresh_schema(conn)
PeerGetSchema ==
    /\ \E connected \in CanConnect(peer.config) :
        IF ~connected
        THEN /\ c_frame' = [Response("get_schema", "503") EXCEPT !.session_id = PeerId]
             /\ UNCHANGED cacheVars
        ELSE \E schema_model \in get_or_refresh_schema :
            /\ tables' = schema_model.tables
            /\ relationships' = schema_model.relationships
            /\ _schema_cache' = schema_model.cache
            /\ cache_version' = schema_model.version
            /\ cache_config' = IF _schema_cache = "model" THEN cache_config
                               ELSE IF schema_model.raised THEN NoConfig
                               ELSE peer.config
            /\ c_frame' = [Response("get_schema", IF schema_model.raised THEN "500" ELSE "ok")
                              EXCEPT !.session_id = PeerId]
    /\ UNCHANGED <<_session_configs, peer>>
    /\ UNCHANGED clusterVars
    /\ UNCHANGED <<result, v_sql, v_out, e_frame, e_db, s_frame, db_version, d_frame, p_frames>>

\* requests of the two sessions, in any order
NextSessions ==
    \/ SetDb
    \/ GetSchema
    \/ PeerSetDb
    \/ PeerGetSchema

SpecSessions == InitConfig /\ [][NextSessions]_vars

\* the configuration of the session that the last request came from
requester_config == IF c_frame.session_id = PeerId THEN peer.config ELSE _session_configs

\* C37: with two sessions configured for different databases, the model
\* that a read of the schema returns to a session was introspected through
\* that session's own connection, never through the other session's.
C37_ModelOfOwnConnection ==
    (/\ c_frame.op = "get_schema" /\ c_frame.response = "ok"
     /\ _session_configs # NoConfig /\ peer.config # NoConfig
     /\ _session_configs.dbname # peer.config.dbname)
        => cache_config = requester_config

\* a statement of the batch raised: the loop stopped at its position
StatementFailed ==
    /\ e_frame.response = "db_error"
    /\ e_frame.i \in 1..Len(e_frame.normalized_sql_list)

\* the statements of the batch that were sent
SentOfBatch == { e_db.executed[j].statement : j \in 1..Len(e_db.executed) } \ {0}

\* C38: if a statement of a validated batch fails while execute_sql runs
\* it, nothing of the batch is committed; a commit happens only after every
\* statement of the batch was executed successfully.
C38_CommitOnlyAfterWholeBatch ==
    /\ StatementFailed => (~e_db.committed /\ db_version = 0)
    /\ e_db.committed
        => /\ e_frame.i > Len(e_frame.normalized_sql_list)
           /\ SentOfBatch = 1..Len(e_frame.normalized_sql_list)
           /\ e_frame.response # "db_error"

\* C38 witness: the second statement of a batch failed after the first one,
\* which changes data, had been executed, and the connection was closed.
C38_Witness ==
    /\ StatementFailed
    /\ e_frame.i = 2
    /\ e_frame.schema_changed
    /\ e_frame.pc = "done"
    /\ ~e_db.committed

\* C39: when the connection test of set_db fails, the session's database
\* configuration after the call is what it was before the call, also when
\* the session had no configuration before.
C39_FailedSetDbKeepsConfiguration ==
    [][ (c_frame'.op = "set_db" /\ c_frame'.response = "failure")
        => _session_configs' = _session_configs ]_vars

\* a request whose refresh_schema call raised in the introspection
RefreshFailed == s_frame.pc = "done" /\ s_frame.failed = "introspection"

\* C40: when the introspection fails during refresh_schema, the error
\* reaches the caller and the Schema Cache is left empty (the model cached
\* before is not kept), so that the next get_or_refresh_schema call
\* introspects again.
C40_FailedRefreshLeavesCacheEmpty ==
    RefreshFailed
        => /\ s_frame.response \in {"error", "failure"}
           /\ _schema_cache = "None"
           /\ get_or_refresh_schema = refresh_schema

\* C40 witness: a model was cached before the request, the request's
\* statements were committed, and its refresh failed.
C40_Witness ==
    /\ RefreshFailed
    /\ s_frame.before.cache = "model"
    /\ e_db.committed
    /\ _schema_cache = "None"
====
